---- MODULE Spec2Model ----
(***************************************************************************)
(* A model of the DataTree key-value store: the leaf and branch page       *)
(* codecs (src/src/leaf_page.rs, src/src/branch_page.rs), the in-memory    *)
(* page store (src/src/page_store.rs) and the tree operations              *)
(* (src/src/data_tree.rs).                                                 *)
(*                                                                         *)
(* A byte string is a sequence of small naturals.  A serialized page is a  *)
(* record of the fields the codec writes, in the order it writes them; its *)
(* byte length is computed from the field widths the codec uses.  The      *)
(* in-memory offsets of a leaf page are not part of the image: serialize   *)
(* drops them and deserialize recomputes them, as in the source.           *)
(***************************************************************************)
EXTENDS Integers, Sequences, FiniteSets, TLC

\* ------------------------------------------------------------------ bounds
\* Page size handed to InMemoryPageStore::with_page_size.
PageSize == 122
\* Largest page id allocate_page may hand out in the model.
MaxPageId == 4

\* --------------------------------------------------------- byte strings
RECURSIVE Fill(_, _)
Fill(n, b) == IF n = 0 THEN <<>> ELSE <<b>> \o Fill(n - 1, b)

Slice(s, off, len) == SubSeq(s, off + 1, off + len)

RemoveAt(s, i) == SubSeq(s, 1, i - 1) \o SubSeq(s, i + 1, Len(s))

\* Option<T>
None == [some |-> FALSE, v |-> <<>>]
Some(x) == [some |-> TRUE, v |-> x]

\* ------------------------------------------------------------- PageType
PageType_LeafPage == 1
PageType_BranchPage == 2

\* PageType::from_u8(value).unwrap_or(PageType::LeafPage)
PageType_from_u8_or_leaf(value) ==
    IF value = PageType_BranchPage THEN PageType_BranchPage ELSE PageType_LeafPage

\* ------------------------------------------------------------- LeafPage
LeafHeaderSize == 1 + 8 + 8 + 8 + 8 + 8
LeafMetaSize == 16

LeafPage_new(page_size) ==
    [page_type |-> PageType_LeafPage, page_size |-> page_size,
     metadata |-> <<>>, data |-> <<>>,
     prev_page_id |-> 0, next_page_id |-> 0]

\* The image written by LeafPage::serialize.
LeafPage_serialize(page) ==
    [tag |-> page.page_type,
     count |-> Len(page.metadata),
     data_start |-> LeafHeaderSize + Len(page.metadata) * LeafMetaSize,
     used |-> Len(page.data),
     prev |-> page.prev_page_id,
     next |-> page.next_page_id,
     lens |-> [i \in 1..Len(page.metadata) |->
                 <<page.metadata[i].key_length, page.metadata[i].value_length>>],
     data |-> page.data]

\* Number of bytes of a serialized leaf image.
LeafBytesLen(bytes) == LeafHeaderSize + bytes.count * LeafMetaSize + Len(bytes.data)

\* Offset of the i-th entry when the entries are laid out back to back.
RECURSIVE OffsetOf(_, _)
OffsetOf(lens, i) ==
    IF i = 1 THEN 0 ELSE OffsetOf(lens, i - 1) + lens[i - 1][1] + lens[i - 1][2]

\* LeafPage::deserialize on an image of len bytes: page_size is the length
\* of the buffer it was handed.
LeafPage_deserialize(bytes, len) ==
    [page_type |-> PageType_from_u8_or_leaf(bytes.tag),
     page_size |-> len,
     metadata |-> [i \in 1..bytes.count |->
                     [key_offset |-> OffsetOf(bytes.lens, i),
                      key_length |-> bytes.lens[i][1],
                      value_offset |-> OffsetOf(bytes.lens, i) + bytes.lens[i][1],
                      value_length |-> bytes.lens[i][2]]],
     data |-> Slice(bytes.data, bytes.data_start - (LeafHeaderSize + bytes.count * LeafMetaSize),
                    bytes.used),
     prev_page_id |-> bytes.prev,
     next_page_id |-> bytes.next]

MetaKey(page, meta) == Slice(page.data, meta.key_offset, meta.key_length)
MetaValue(page, meta) == Slice(page.data, meta.value_offset, meta.value_length)

\* self.metadata.iter().position(|meta| meta_key == key); 0 when absent.
LeafPage_position(page, key) ==
    LET hits == {i \in 1..Len(page.metadata) : MetaKey(page, page.metadata[i]) = key}
    IN IF hits = {} THEN 0 ELSE CHOOSE i \in hits : \A j \in hits : i <= j

LeafPage_get(page, key) ==
    LET pos == LeafPage_position(page, key)
    IN IF pos = 0 THEN None ELSE Some(MetaValue(page, page.metadata[pos]))

\* Stable insertion of one entry into a sequence sorted by key_offset.
RECURSIVE InsertSorted(_, _)
InsertSorted(s, m) ==
    IF s = <<>> THEN <<m>>
    ELSE IF s[Len(s)].key_offset <= m.key_offset THEN Append(s, m)
    ELSE Append(InsertSorted(SubSeq(s, 1, Len(s) - 1), m), s[Len(s)])

\* metadata.sort_by_key(|m| m.key_offset)
RECURSIVE SortByKeyOffset(_)
SortByKeyOffset(s) ==
    IF s = <<>> THEN <<>>
    ELSE InsertSorted(SortByKeyOffset(SubSeq(s, 1, Len(s) - 1)), s[Len(s)])

\* The rebuild loop of compact_data over the sorted metadata.
RECURSIVE Rebuild(_, _, _, _)
Rebuild(old_data, metas, new_data, new_metadata) ==
    IF metas = <<>> THEN [data |-> new_data, metadata |-> new_metadata]
    ELSE LET meta == Head(metas)
             key == Slice(old_data, meta.key_offset, meta.key_length)
             value == Slice(old_data, meta.value_offset, meta.value_length)
             new_meta == [key_offset |-> Len(new_data),
                          key_length |-> meta.key_length,
                          value_offset |-> Len(new_data) + meta.key_length,
                          value_length |-> meta.value_length]
         IN Rebuild(old_data, Tail(metas), new_data \o key \o value,
                    Append(new_metadata, new_meta))

\* Variant of LeafPage_compact_data: the slots are rebuilt in descending
\* order of key_offset.
LeafPage_compact_data_descending(page) ==
    IF page.metadata = <<>> THEN [page EXCEPT !.data = <<>>]
    ELSE LET sorted == SortByKeyOffset(page.metadata)
             r == Rebuild(page.data,
                          [i \in 1..Len(sorted) |-> sorted[Len(sorted) + 1 - i]],
                          <<>>, <<>>)
         IN [page EXCEPT !.data = r.data, !.metadata = r.metadata]

LeafPage_compact_data(page) ==
    IF page.metadata = <<>> THEN [page EXCEPT !.data = <<>>]
    ELSE LET r == Rebuild(page.data, SortByKeyOffset(page.metadata), <<>>, <<>>)
         IN [page EXCEPT !.data = r.data, !.metadata = r.metadata]

\* Appends (key, value) to the data region and its slot to the directory.
LeafPage_append(page, key, value) ==
    [page EXCEPT
       !.metadata = Append(@, [key_offset |-> Len(page.data),
                               key_length |-> Len(key),
                               value_offset |-> Len(page.data) + Len(key),
                               value_length |-> Len(value)]),
       !.data = @ \o key \o value]

\* The space check of LeafPage::insert for a key already in the page.
LeafPage_update_fits(page, old_meta, value) ==
    LET required_space == IF Len(value) > old_meta.value_length
                          THEN Len(value) - old_meta.value_length ELSE 0
    IN ~(Len(page.data) + required_space > page.page_size)

\* Variant of LeafPage_new_fits: the entry is judged against the page size
\* of the store instead of the page_size field of the parsed page.
LeafPage_new_fits_store_size(page, key, value) ==
    LET required_space == Len(key) + Len(value)
        metadata_size == (Len(page.metadata) + 1) * LeafMetaSize
    IN ~(Len(page.data) + required_space + metadata_size + LeafHeaderSize > PageSize)

\* The space check of LeafPage::insert for a new key.
LeafPage_new_fits(page, key, value) ==
    LET required_space == Len(key) + Len(value)
        metadata_size == (Len(page.metadata) + 1) * LeafMetaSize
    IN ~(Len(page.data) + required_space + metadata_size + LeafHeaderSize > page.page_size)

\* Variant of LeafPage_insert: an update appends the new entry without
\* removing the old slot.
LeafPage_insert_keeps_old(page, key, value) ==
    LET pos == LeafPage_position(page, key)
    IN IF pos # 0
       THEN IF ~LeafPage_update_fits(page, page.metadata[pos], value)
            THEN [ok |-> FALSE, page |-> page]
            ELSE [ok |-> TRUE, page |-> LeafPage_append(page, key, value)]
       ELSE IF ~LeafPage_new_fits(page, key, value)
            THEN [ok |-> FALSE, page |-> page]
            ELSE [ok |-> TRUE, page |-> LeafPage_append(page, key, value)]

\* Variant of LeafPage_insert: an update takes the old entry out before it
\* checks the space, so a refused update leaves the page without the key.
LeafPage_insert_removes_first(page, key, value) ==
    LET pos == LeafPage_position(page, key)
    IN IF pos # 0
       THEN IF ~LeafPage_update_fits(page, page.metadata[pos], value)
            THEN [ok |-> FALSE,
                  page |-> LeafPage_compact_data([page EXCEPT !.metadata = RemoveAt(@, pos)])]
            ELSE [ok |-> TRUE,
                  page |-> LeafPage_append(
                      LeafPage_compact_data([page EXCEPT !.metadata = RemoveAt(@, pos)]),
                      key, value)]
       ELSE IF ~LeafPage_new_fits(page, key, value)
            THEN [ok |-> FALSE, page |-> page]
            ELSE [ok |-> TRUE, page |-> LeafPage_append(page, key, value)]

LeafPage_insert(page, key, value) ==
    LET pos == LeafPage_position(page, key)
    IN IF pos # 0
       THEN IF ~LeafPage_update_fits(page, page.metadata[pos], value)
            THEN [ok |-> FALSE, page |-> page]
            ELSE [ok |-> TRUE,
                  page |-> LeafPage_append(
                      LeafPage_compact_data([page EXCEPT !.metadata = RemoveAt(@, pos)]),
                      key, value)]
       ELSE IF ~LeafPage_new_fits(page, key, value)
            THEN [ok |-> FALSE, page |-> page]
            ELSE [ok |-> TRUE, page |-> LeafPage_append(page, key, value)]

\* Variant of LeafPage_delete: a miss is reported as a hit.
LeafPage_delete_reports_hit(page, key) ==
    LET pos == LeafPage_position(page, key)
    IN IF pos # 0
       THEN [ok |-> TRUE,
             page |-> LeafPage_compact_data([page EXCEPT !.metadata = RemoveAt(@, pos)])]
       ELSE [ok |-> TRUE, page |-> page]

LeafPage_delete(page, key) ==
    LET pos == LeafPage_position(page, key)
    IN IF pos # 0
       THEN [ok |-> TRUE,
             page |-> LeafPage_compact_data([page EXCEPT !.metadata = RemoveAt(@, pos)])]
       ELSE [ok |-> FALSE, page |-> page]

LeafPage_max_value_size(page) == page.page_size - 32 - 32

\* Variant of LeafPage_is_value_too_large: the value is compared with the
\* whole page size.
LeafPage_is_value_too_large_page_size(page, value) == Len(value) > page.page_size

LeafPage_is_value_too_large(page, value) == Len(value) > LeafPage_max_value_size(page)

\* ----------------------------------------------------------- BranchPage
BranchHeaderSize == 1 + 8 + 8 + 8
BranchEntrySize == 16

\* Stand-in for u64::MAX: the largest integer of the model's arithmetic.
U64_MAX == 2147483647

BranchPage_new(page_size) ==
    [page_type |-> PageType_BranchPage, page_size |-> page_size,
     entries |-> <<>>, prev_page_id |-> 0, next_page_id |-> 0]

\* The insertion point chosen by binary_search_by_key(..).unwrap_or_else(|pos| pos).
BranchPage_insert_pos(entries, first_key) ==
    Cardinality({i \in 1..Len(entries) : entries[i].first_key < first_key}) + 1

\* Variant of BranchPage_insert_positions: the entry is pushed at the end.
BranchPage_insert_positions_end(entries, first_key) == {Len(entries) + 1}

\* Every insertion point binary_search_by_key may report: with entries of
\* the same first_key it returns the index of any one of them.
BranchPage_insert_positions(entries, first_key) ==
    LET matches == {i \in 1..Len(entries) : entries[i].first_key = first_key}
    IN IF matches # {} THEN matches ELSE {BranchPage_insert_pos(entries, first_key)}

\* self.entries.insert(pos, entry)
BranchPage_insert_at(page, pos, page_id, first_key) ==
    LET entry == [page_id |-> page_id, first_key |-> first_key]
    IN [page EXCEPT !.entries = SubSeq(@, 1, pos - 1) \o <<entry>> \o SubSeq(@, pos, Len(@))]

BranchPage_insert(page, page_id, first_key) ==
    BranchPage_insert_at(page, BranchPage_insert_pos(page.entries, first_key),
                         page_id, first_key)

\* Variant of BranchPage_find_page_id without the final fall-through to the
\* last entry: a key no range test accepts finds nothing.
BranchPage_find_page_id_no_last(page, key) ==
    LET n == Len(page.entries)
        next_key(i) == IF i + 1 <= n THEN page.entries[i + 1].first_key ELSE U64_MAX
        hits == {i \in 1..n : key >= page.entries[i].first_key /\ key < next_key(i)}
    IN IF n = 0 THEN 0
       ELSE IF key < page.entries[1].first_key THEN page.entries[1].page_id
       ELSE IF hits # {} THEN page.entries[CHOOSE i \in hits : \A j \in hits : i <= j].page_id
       ELSE 0

\* BranchPage::find_page_id; 0 stands for None.
BranchPage_find_page_id(page, key) ==
    LET n == Len(page.entries)
        next_key(i) == IF i + 1 <= n THEN page.entries[i + 1].first_key ELSE U64_MAX
        hits == {i \in 1..n : key >= page.entries[i].first_key /\ key < next_key(i)}
    IN IF n = 0 THEN 0
       ELSE IF key < page.entries[1].first_key THEN page.entries[1].page_id
       ELSE IF hits # {} THEN page.entries[CHOOSE i \in hits : \A j \in hits : i <= j].page_id
       ELSE page.entries[n].page_id

BranchPage_serialize(page) ==
    [tag |-> page.page_type,
     count |-> Len(page.entries),
     prev |-> page.prev_page_id,
     next |-> page.next_page_id,
     entries |-> page.entries]

BranchBytesLen(bytes) == BranchHeaderSize + bytes.count * BranchEntrySize

BranchPage_deserialize(bytes, len) ==
    [page_type |-> IF bytes.tag = PageType_LeafPage THEN PageType_LeafPage
                   ELSE PageType_BranchPage,
     page_size |-> len,
     entries |-> SubSeq(bytes.entries, 1, bytes.count),
     prev_page_id |-> bytes.prev,
     next_page_id |-> bytes.next]

\* Length in bytes of a serialized page image of either kind.
BytesLen(bytes) ==
    IF bytes.tag = PageType_BranchPage THEN BranchBytesLen(bytes) ELSE LeafBytesLen(bytes)

\* ---------------------------------------------------------- RleLeafPage
\* PageType::RleLeafPage, the tag rle_leaf_page.rs gives its pages.  The
\* PageType enum of data_tree.rs does not list the variant; its tag value is
\* the one the specification gives (RleLeaf = 3).
PageType_RleLeafPage == 3

\* HEADER_SIZE and METADATA_ENTRY_SIZE of rle_leaf_page.rs
RleHeaderSize == 1 + 8 + 8 + 8 + 8 + 8
RleMetaSize == 8 + 8 + 8 + 8

SetMin(S) == CHOOSE x \in S : \A y \in S : x <= y
SetMax(S) == CHOOSE x \in S : \A y \in S : x >= y

\* An RleLeafPage: metadata is the sequence of runs
\* [start_key, end_key, value_offset, value_length], data the value bytes.
RleLeafPage_new_empty(page_size) ==
    [page_type |-> PageType_RleLeafPage, page_size |-> page_size,
     metadata |-> <<>>, data |-> <<>>, prev_page_id |-> 0, next_page_id |-> 0]

\* x + 1 on a u64 in a build without overflow checks.
wrapping_inc(x) == IF x = U64_MAX THEN 0 ELSE x + 1

\* &self.data[meta.value_offset..meta.value_offset + meta.value_length]
\* panics unless the range lies within data.
RleInRange(page, meta) == meta.value_offset + meta.value_length <= Len(page.data)
RleValue(page, meta) == Slice(page.data, meta.value_offset, meta.value_length)

\* Index of the first run that contains key, 0 when none does.
RleRunOf(page, key) ==
    LET hits == {i \in 1..Len(page.metadata) :
                    key >= page.metadata[i].start_key /\ key <= page.metadata[i].end_key}
    IN IF hits = {} THEN 0 ELSE SetMin(hits)

\* RleLeafPage::get: [panic, value]
RleLeafPage_get(page, key) ==
    LET i == RleRunOf(page, key)
    IN IF i = 0 THEN [panic |-> FALSE, value |-> None]
       ELSE IF ~RleInRange(page, page.metadata[i]) THEN [panic |-> TRUE, value |-> None]
       ELSE [panic |-> FALSE, value |-> Some(RleValue(page, page.metadata[i]))]

\* What a mutating call leaves: the value it returned, whether it panicked
\* (the page is then shown as it was at the call), and the page.
RlePanic(page) == [ok |-> FALSE, panic |-> TRUE, page |-> page]
RleDone(ok, page) == [ok |-> ok, panic |-> FALSE, page |-> page]

\* Stable insertion of one run into a sequence sorted by start_key.
RECURSIVE RleInsertSorted(_, _)
RleInsertSorted(s, m) ==
    IF s = <<>> THEN <<m>>
    ELSE IF s[Len(s)].start_key <= m.start_key THEN Append(s, m)
    ELSE Append(RleInsertSorted(SubSeq(s, 1, Len(s) - 1), m), s[Len(s)])

\* metadata.sort_by_key(|m| m.start_key)
RECURSIVE SortByStartKey(_)
SortByStartKey(s) ==
    IF s = <<>> THEN <<>>
    ELSE RleInsertSorted(SortByStartKey(SubSeq(s, 1, Len(s) - 1)), s[Len(s)])

\* Variant of RleValueScan that never finds the value in the page.
RleValueScan_none(page, value) == 0

\* The scan for a run that already stores the value: the index of the first
\* run of the value's length whose bytes equal it, or whose range read
\* panics; 0 when the scan ends without either.
RleValueScan(page, value) ==
    LET stops == {i \in 1..Len(page.metadata) :
                    /\ page.metadata[i].value_length = Len(value)
                    /\ \/ ~RleInRange(page, page.metadata[i])
                       \/ RleValue(page, page.metadata[i]) = value}
    IN IF stops = {} THEN 0 ELSE SetMin(stops)

\* The common tail of put and split_run_and_insert: reuse or append the
\* value, check the space for new_metadata_entries more runs, and, in place
\* of run remove_index (0: none), push the runs pushed_before, the new
\* single-key run of key and the runs pushed_after, then sort.
RleStoreRuns(page, key, value, new_metadata_entries, remove_index, pushed_before, pushed_after) ==
    LET s == RleValueScan(page, value)
        value_exists == s # 0
        required_space == IF value_exists THEN 0 ELSE Len(value)
        total_space == RleHeaderSize
                       + (Len(page.metadata) + new_metadata_entries) * RleMetaSize
                       + Len(page.data) + required_space
        value_offset == IF value_exists THEN page.metadata[s].value_offset
                        ELSE Len(page.data)
        kept == IF remove_index = 0 THEN page.metadata
                ELSE RemoveAt(page.metadata, remove_index)
        single == [start_key |-> key, end_key |-> key,
                   value_offset |-> value_offset, value_length |-> Len(value)]
    IN IF value_exists /\ ~RleInRange(page, page.metadata[s]) THEN RlePanic(page)
       ELSE IF total_space > page.page_size THEN RleDone(FALSE, page)
       ELSE RleDone(TRUE,
                [page EXCEPT !.data = IF value_exists THEN @ ELSE @ \o value,
                             !.metadata = SortByStartKey(
                                 kept \o pushed_before \o <<single>> \o pushed_after)])

\* RleLeafPage::split_run_and_insert
RleLeafPage_split_run_and_insert(page, run_index, key, value) ==
    LET meta == page.metadata[run_index]
        split_into_two == key > meta.start_key /\ key < meta.end_key
        new_metadata_entries == IF split_into_two THEN 2 ELSE 1
        before == [meta EXCEPT !.end_key = key - 1]
        after == [meta EXCEPT !.start_key = key + 1]
    IN IF key = meta.start_key
       THEN RleStoreRuns(page, key, value, new_metadata_entries, run_index,
                         IF meta.end_key > key THEN <<after>> ELSE <<>>, <<>>)
       ELSE IF key = meta.end_key
       THEN RleStoreRuns(page, key, value, new_metadata_entries, run_index,
                         <<before>>, <<>>)
       ELSE RleStoreRuns(page, key, value, new_metadata_entries, run_index,
                         <<before>>, <<after>>)

\* RleLeafPage::put.  overflow_checks tells whether the build panics on
\* `key + 1` and `meta.end_key + 1` at u64::MAX (a debug build) or wraps to 0
\* (a release build).
RleLeafPage_put(page, key, value, overflow_checks) ==
    LET metadata == page.metadata
        found == RleRunOf(page, key)
        scanned == IF found = 0 THEN 1..Len(metadata) ELSE 1..(found - 1)
        overflow == \E i \in scanned : key = U64_MAX \/ metadata[i].end_key = U64_MAX
        afters == {i \in scanned : wrapping_inc(key) = metadata[i].start_key}
        befores == {i \in scanned : key = wrapping_inc(metadata[i].end_key)}
        adjacent_run_after == IF afters = {} THEN 0 ELSE SetMax(afters)
        adjacent_run_before == IF befores = {} THEN 0 ELSE SetMax(befores)
        extended == [page EXCEPT !.metadata[adjacent_run_before].end_key = key]
        merged == [page EXCEPT !.metadata =
                      RemoveAt([@ EXCEPT ![adjacent_run_before].end_key =
                                            metadata[adjacent_run_after].end_key],
                               adjacent_run_after)]
    IN IF overflow /\ overflow_checks THEN RlePanic(page)
       ELSE IF found # 0
       THEN IF ~RleInRange(page, metadata[found]) THEN RlePanic(page)
            ELSE IF RleValue(page, metadata[found]) = value THEN RleDone(TRUE, page)
            ELSE RleLeafPage_split_run_and_insert(page, found, key, value)
       ELSE IF adjacent_run_before # 0 /\ ~RleInRange(page, metadata[adjacent_run_before])
       THEN RlePanic(page)
       ELSE IF adjacent_run_before # 0
               /\ RleValue(page, metadata[adjacent_run_before]) = value
       THEN IF adjacent_run_after = 0 THEN RleDone(TRUE, extended)
            ELSE IF ~RleInRange(page, metadata[adjacent_run_after]) THEN RlePanic(page)
            ELSE IF RleValue(page, metadata[adjacent_run_after]) = value
                 THEN RleDone(TRUE, merged)
            ELSE RleDone(TRUE, extended)
       ELSE IF adjacent_run_after # 0 /\ ~RleInRange(page, metadata[adjacent_run_after])
       THEN RlePanic(page)
       ELSE IF adjacent_run_after # 0
               /\ RleValue(page, metadata[adjacent_run_after]) = value
       THEN RleDone(TRUE, [page EXCEPT !.metadata[adjacent_run_after].start_key = key])
       ELSE RleStoreRuns(page, key, value, 1, 0, <<>>, <<>>)

\* RleLeafPage::is_full
RleLeafPage_is_full(page, value) ==
    LET new_metadata_size == RleMetaSize
        new_data_size == Len(value)
        current_metadata_size == Len(page.metadata) * RleMetaSize
        current_data_size == Len(page.data)
        total_required == RleHeaderSize + current_metadata_size + current_data_size
                          + new_metadata_size + new_data_size
        with_buffer == total_required + 16
    IN with_buffer > page.page_size

\* The loops of compact_data from run i on: the values in use, each once,
\* laid out in new_data, and offset_map from old offset to new offset (a
\* later insert for the same old offset replaces the earlier one).
RECURSIVE RleCompactFrom(_, _, _, _)
RleCompactFrom(page, i, new_data, offset_map) ==
    IF i > Len(page.metadata) THEN [data |-> new_data, offset_map |-> offset_map]
    ELSE LET meta == page.metadata[i]
             value == RleValue(page, meta)
         IN IF \E j \in 1..(i - 1) : RleValue(page, page.metadata[j]) = value
            THEN RleCompactFrom(page, i + 1, new_data, offset_map)
            ELSE RleCompactFrom(page, i + 1, new_data \o value,
                                (meta.value_offset :> Len(new_data)) @@ offset_map)

\* RleLeafPage::compact_data: [panic, page]
RleLeafPage_compact_data(page) ==
    IF page.metadata = <<>> THEN [panic |-> FALSE, page |-> [page EXCEPT !.data = <<>>]]
    ELSE IF \E i \in 1..Len(page.metadata) : ~RleInRange(page, page.metadata[i])
    THEN [panic |-> TRUE, page |-> page]
    ELSE LET r == RleCompactFrom(page, 1, <<>>, [o \in {} |-> 0])
         IN [panic |-> FALSE,
             page |-> [page EXCEPT
                !.data = r.data,
                !.metadata = [i \in 1..Len(page.metadata) |->
                    IF page.metadata[i].value_offset \in DOMAIN r.offset_map
                    THEN [page.metadata[i] EXCEPT
                             !.value_offset = r.offset_map[page.metadata[i].value_offset]]
                    ELSE page.metadata[i]]]]

\* used_size of compact_data_if_needed: the value_length of the first run
\* at each value_offset, summed.
RECURSIVE RleUsedSize(_, _)
RleUsedSize(metadata, i) ==
    IF i > Len(metadata) THEN 0
    ELSE (IF \E j \in 1..(i - 1) : metadata[j].value_offset = metadata[i].value_offset
          THEN 0 ELSE metadata[i].value_length)
         + RleUsedSize(metadata, i + 1)

\* RleLeafPage::compact_data_if_needed
RleLeafPage_compact_data_if_needed(page) ==
    IF RleUsedSize(page.metadata, 1) < (Len(page.data) * 3) \div 4
    THEN RleLeafPage_compact_data(page)
    ELSE [panic |-> FALSE, page |-> page]

\* RleLeafPage::delete
RleLeafPage_delete(page, key) ==
    LET run_index == RleRunOf(page, key)
        meta == page.metadata[run_index]
        new_meta == [meta EXCEPT !.start_key = key + 1]
        metadata ==
            IF meta.start_key = key /\ meta.end_key = key
            THEN RemoveAt(page.metadata, run_index)
            ELSE IF meta.start_key = key
            THEN [page.metadata EXCEPT ![run_index].start_key = key + 1]
            ELSE IF meta.end_key = key
            THEN [page.metadata EXCEPT ![run_index].end_key = key - 1]
            ELSE SortByStartKey(
                    Append([page.metadata EXCEPT ![run_index].end_key = key - 1],
                           new_meta))
        r == RleLeafPage_compact_data_if_needed([page EXCEPT !.metadata = metadata])
    IN IF run_index = 0 THEN RleDone(FALSE, page)
       ELSE IF r.panic THEN RlePanic(page)
       ELSE RleDone(TRUE, r.page)

\* RleLeafPage::serialize: the fields of the image and its length in bytes,
\* zero padding up to page_size included.
RleLeafPage_serialize(page) ==
    LET live == RleHeaderSize + Len(page.metadata) * RleMetaSize + Len(page.data)
    IN [tag |-> page.page_type,
        count |-> Len(page.metadata),
        data_start |-> RleHeaderSize + Len(page.metadata) * RleMetaSize,
        used |-> Len(page.data),
        prev |-> page.prev_page_id,
        next |-> page.next_page_id,
        runs |-> page.metadata,
        data |-> page.data,
        len |-> IF live < page.page_size THEN page.page_size ELSE live]

\* RleLeafPage::deserialize of an image that holds all of its runs.
RleLeafPage_deserialize(bytes) ==
    IF bytes.len < RleHeaderSize THEN RleLeafPage_new_empty(bytes.len)
    ELSE [page_type |-> IF bytes.tag \in {PageType_LeafPage, PageType_BranchPage}
                        THEN bytes.tag ELSE PageType_RleLeafPage,
          page_size |-> bytes.len,
          metadata |-> SubSeq(bytes.runs, 1, bytes.count),
          data |-> IF bytes.data_start < bytes.len
                   THEN SubSeq(bytes.data, 1,
                               IF bytes.data_start + bytes.used <= bytes.len
                               THEN bytes.used ELSE bytes.len - bytes.data_start)
                   ELSE <<>>,
          prev_page_id |-> bytes.prev,
          next_page_id |-> bytes.next]

\* ------------------------------------------------------ InMemoryPageStore
CrcSize == 4

\* A store is [pages, next_page_id, page_size]; pages maps an id to the
\* stored image: the payload and whether its trailing CRC still matches.
InMemoryPageStore_with_page_size(page_size) ==
    [pages |-> << >>, next_page_id |-> 1, page_size |-> page_size]

add_crc(bytes) == [payload |-> bytes, crc_ok |-> TRUE]

page_exists(store, page_id) == page_id \in DOMAIN store.pages

\* Variant of get_page_bytes: the CRC is not verified.
get_page_bytes_unverified(store, page_id) ==
    IF page_id \notin DOMAIN store.pages
    THEN [err |-> "NotFound", bytes |-> <<>>]
    ELSE [err |-> "", bytes |-> store.pages[page_id].payload]

\* Result: [err, bytes]; err = "" on success.
get_page_bytes(store, page_id) ==
    IF page_id \notin DOMAIN store.pages
    THEN [err |-> "NotFound", bytes |-> <<>>]
    ELSE IF ~store.pages[page_id].crc_ok
    THEN [err |-> "PageCorruption", bytes |-> <<>>]
    ELSE [err |-> "", bytes |-> store.pages[page_id].payload]

\* HashMap::insert(page_id, image)
MapInsert(pages, page_id, image) ==
    [i \in DOMAIN pages \cup {page_id} |-> IF i = page_id THEN image ELSE pages[i]]

\* HashMap::remove(page_id)
MapRemove(pages, page_id) == [i \in DOMAIN pages \ {page_id} |-> pages[i]]

\* Variant of put_page_bytes_too_large: the 4 bytes of the CRC are not counted.
put_page_bytes_too_large_no_crc(store, bytes) == BytesLen(bytes) > store.page_size

\* The size check of put_page_bytes.
put_page_bytes_too_large(store, bytes) == BytesLen(bytes) + CrcSize > store.page_size

\* Result: [err, store].
put_page_bytes(store, page_id, bytes) ==
    IF put_page_bytes_too_large(store, bytes)
    THEN [err |-> "PageTooLarge", store |-> store]
    ELSE [err |-> "",
          store |-> [store EXCEPT !.pages = MapInsert(@, page_id, add_crc(bytes))]]

\* Result: [page_id, store].  The put_page_bytes(..).unwrap() of an empty
\* leaf cannot fail for a page size of at least 45 bytes.
allocate_page(store) ==
    LET page_id == store.next_page_id
        s1 == [store EXCEPT !.next_page_id = @ + 1]
    IN [page_id |-> page_id,
        store |-> put_page_bytes(s1, page_id,
                                 LeafPage_serialize(LeafPage_new(s1.page_size))).store]

\* get_next_page_id parses the stored image, CRC included, without
\* verifying it; 0 stands for None.  On an image whose bytes are all
\* complemented the entry count read by LeafPage::deserialize is above
\* 2^63 and Vec::with_capacity panics: -1 stands for the panic.
get_next_page_id(store, page_id) ==
    IF page_id \notin DOMAIN store.pages THEN 0
    ELSE IF ~store.pages[page_id].crc_ok THEN -1
    ELSE LeafPage_deserialize(store.pages[page_id].payload,
                              BytesLen(store.pages[page_id].payload) + CrcSize).next_page_id

\* get_prev_page_id: as get_next_page_id, for the prev link.
get_prev_page_id(store, page_id) ==
    IF page_id \notin DOMAIN store.pages THEN 0
    ELSE IF ~store.pages[page_id].crc_ok THEN -1
    ELSE LeafPage_deserialize(store.pages[page_id].payload,
                              BytesLen(store.pages[page_id].payload) + CrcSize).prev_page_id

\* Variant of free_page: every page is removed.
free_page_clears(store, page_id) == [store EXCEPT !.pages = << >>]

free_page(store, page_id) == [store EXCEPT !.pages = MapRemove(@, page_id)]

get_page_count(store) == Cardinality(DOMAIN store.pages)

\* corrupt_page_for_testing complements every byte of the stored image, the
\* CRC included.  The CRC of a complemented payload never equals the
\* complemented CRC, so the image fails verification; complementing it a
\* second time gives back the image that was stored.
corrupt_page_for_testing(store, page_id) ==
    IF page_id \notin DOMAIN store.pages THEN store
    ELSE [store EXCEPT !.pages[page_id].crc_ok = ~@]

\* Result: [err, store].  The previous page is rewritten before the next
\* page is read.
link_pages(store, prev_page_id, next_page_id) ==
    LET r1 == get_page_bytes(store, prev_page_id)
        prev_page == LeafPage_deserialize(r1.bytes, BytesLen(r1.bytes))
        w1 == put_page_bytes(store, prev_page_id,
                             LeafPage_serialize([prev_page EXCEPT !.next_page_id = next_page_id]))
        r2 == get_page_bytes(w1.store, next_page_id)
        next_page == LeafPage_deserialize(r2.bytes, BytesLen(r2.bytes))
        w2 == put_page_bytes(w1.store, next_page_id,
                             LeafPage_serialize([next_page EXCEPT !.prev_page_id = prev_page_id]))
    IN IF r1.err # "" THEN [err |-> r1.err, store |-> store]
       ELSE IF w1.err # "" THEN [err |-> w1.err, store |-> store]
       ELSE IF r2.err # "" THEN [err |-> r2.err, store |-> w1.store]
       ELSE IF w2.err # "" THEN [err |-> w2.err, store |-> w1.store]
       ELSE [err |-> "", store |-> w2.store]

\* ------------------------------------------------------------- DataTree
\* A tree is [store, root_page_id, dirty_pages].

\* DataTree::new: the root is an empty leaf page.
DataTree_new(store) ==
    LET a == allocate_page(store)
        w == put_page_bytes(a.store, a.page_id,
                            LeafPage_serialize(LeafPage_new(a.store.page_size)))
    IN [store |-> w.store, root_page_id |-> a.page_id, dirty_pages |-> {}]

\* DataTree::new_with_branch_root: an empty leaf, then a branch root with
\* the single entry (leaf_page_id, 0).
DataTree_new_with_branch_root(store) ==
    LET a1 == allocate_page(store)
        w1 == put_page_bytes(a1.store, a1.page_id,
                             LeafPage_serialize(LeafPage_new(a1.store.page_size)))
        a2 == allocate_page(w1.store)
        branch_page == BranchPage_insert(BranchPage_new(a2.store.page_size), a1.page_id, 0)
        w2 == put_page_bytes(a2.store, a2.page_id, BranchPage_serialize(branch_page))
    IN [store |-> w2.store, root_page_id |-> a2.page_id, dirty_pages |-> {}]

\* u64::from_le_bytes of the first 8 bytes of the key, zero padded.
RECURSIVE from_le_bytes(_)
from_le_bytes(b) == IF b = <<>> THEN 0 ELSE Head(b) + 256 * from_le_bytes(Tail(b))

key_as_u64(key) ==
    from_le_bytes(IF Len(key) >= 8 THEN SubSeq(key, 1, 8) ELSE key)

\* The page the chain walk of an operation starts at, given the root image:
\* the child chosen by the branch root, or the root itself when the root
\* is not tagged Branch.  0 when the branch has no entry for the key.
first_leaf_page_id(t, root_page_bytes, key) ==
    IF PageType_from_u8_or_leaf(root_page_bytes.tag) = PageType_BranchPage
    THEN BranchPage_find_page_id(
             BranchPage_deserialize(root_page_bytes, BytesLen(root_page_bytes)),
             key_as_u64(key))
    ELSE t.root_page_id

\* The chain walk of DataTree::get.  visited holds the pages already read:
\* a walk that comes back to one of them never returns ("hang").
RECURSIVE get_walk(_, _, _, _)
get_walk(t, current_page_id, key, visited) ==
    IF current_page_id \in visited THEN [err |-> "hang", value |-> None]
    ELSE LET r == get_page_bytes(t.store, current_page_id) IN
    IF r.err # "" THEN [err |-> r.err, value |-> None]
    ELSE LET page == LeafPage_deserialize(r.bytes, BytesLen(r.bytes))
             hit == LeafPage_get(page, key)
             next_page_id == get_next_page_id(t.store, current_page_id)
         IN IF hit.some THEN [err |-> "", value |-> hit]
            ELSE IF next_page_id # 0
            THEN get_walk(t, next_page_id, key, visited \cup {current_page_id})
            ELSE [err |-> "", value |-> None]

\* Variant of DataTree_get_tree: a get marks the root page dirty.
DataTree_get_tree_marks_root(t, key) == [t EXCEPT !.dirty_pages = @ \cup {t.root_page_id}]

\* The tree a get leaves: get takes &self and calls only the &self methods
\* get_page_bytes and get_next_page_id of the store.
DataTree_get_tree(t, key) == t

\* Result: [err, value].
DataTree_get(t, key) ==
    LET root == get_page_bytes(t.store, t.root_page_id) IN
    IF root.err # "" THEN [err |-> root.err, value |-> None]
    ELSE LET leaf_page_id == first_leaf_page_id(t, root.bytes, key)
         IN IF leaf_page_id = 0 THEN [err |-> "", value |-> None]
            ELSE get_walk(t, leaf_page_id, key, {})

\* Variant of set_prev_page_id: the page keeps the prev_page_id it had.
set_prev_page_id_skipped(page, page_id) == page

\* LeafPage::set_prev_page_id
set_prev_page_id(page, page_id) == [page EXCEPT !.prev_page_id = page_id]

\* The end-of-chain branch of DataTree::put: allocate a leaf, point the
\* current page at it, insert into the new page and save it.
put_extend(t, current_page_id, page, key, value) ==
    LET a == allocate_page(t.store)
        new_page_id == a.page_id
        new_page == LeafPage_new(a.store.page_size)
        w1 == put_page_bytes(a.store, current_page_id,
                             LeafPage_serialize([page EXCEPT !.next_page_id = new_page_id]))
        t0 == [t EXCEPT !.store = a.store]
        t1 == [t EXCEPT !.store = w1.store, !.dirty_pages = @ \cup {current_page_id}]
        ins == LeafPage_insert(set_prev_page_id(new_page, current_page_id), key, value)
        w2 == put_page_bytes(t1.store, new_page_id, LeafPage_serialize(ins.page))
    IN IF w1.err # "" THEN [t |-> t0, err |-> w1.err]
       ELSE IF ~ins.ok THEN [t |-> t1, err |-> "FailedToInsertIntoNewPage"]
       ELSE IF w2.err # "" THEN [t |-> t1, err |-> w2.err]
       ELSE [t |-> [t1 EXCEPT !.store = w2.store, !.dirty_pages = @ \cup {new_page_id}],
             err |-> ""]

\* The loop of DataTree::put.
RECURSIVE put_walk(_, _, _, _, _)
put_walk(t, current_page_id, key, value, visited) ==
    IF current_page_id \in visited THEN [t |-> t, err |-> "hang"]
    ELSE LET r == get_page_bytes(t.store, current_page_id) IN
    IF r.err # "" THEN [t |-> t, err |-> r.err]
    ELSE LET page == LeafPage_deserialize(r.bytes, BytesLen(r.bytes))
             ins == LeafPage_insert(page, key, value)
             w == put_page_bytes(t.store, current_page_id, LeafPage_serialize(ins.page))
             next_page_id == get_next_page_id(t.store, current_page_id)
         IN IF ins.ok
            THEN IF w.err # "" THEN [t |-> t, err |-> w.err]
                 ELSE [t |-> [t EXCEPT !.store = w.store,
                                       !.dirty_pages = @ \cup {current_page_id}],
                       err |-> ""]
            ELSE IF next_page_id # 0
            THEN put_walk(t, next_page_id, key, value, visited \cup {current_page_id})
            ELSE put_extend(t, current_page_id, page, key, value)

\* Result: [t, err].
DataTree_put(t, key, value) ==
    IF LeafPage_is_value_too_large(LeafPage_new(t.store.page_size), value)
    THEN [t |-> t, err |-> "ValueTooLarge"]
    ELSE LET root == get_page_bytes(t.store, t.root_page_id) IN
    IF root.err # "" THEN [t |-> t, err |-> root.err]
    ELSE LET leaf_page_id == first_leaf_page_id(t, root.bytes, key)
         IN IF leaf_page_id = 0 THEN [t |-> t, err |-> "NoLeafPageForKey"]
            ELSE put_walk(t, leaf_page_id, key, value, {})

\* Rewrites one link field of a neighbour of the page being unlinked:
\* get_page_bytes, deserialize, set the field, serialize, put_page_bytes.
\* Result: [t, err].
relink(t, page_id, field, target) ==
    LET r == get_page_bytes(t.store, page_id)
        page == LeafPage_deserialize(r.bytes, BytesLen(r.bytes))
        w == put_page_bytes(t.store, page_id,
                            LeafPage_serialize(IF field = "next"
                                               THEN [page EXCEPT !.next_page_id = target]
                                               ELSE [page EXCEPT !.prev_page_id = target]))
    IN IF r.err # "" THEN [t |-> t, err |-> r.err]
       ELSE IF w.err # "" THEN [t |-> t, err |-> w.err]
       ELSE [t |-> [t EXCEPT !.store = w.store, !.dirty_pages = @ \cup {page_id}],
             err |-> ""]

\* Variant of delete_unlinks: an emptied leaf is never unlinked and freed.
delete_unlinks_never(t, current_page_id, page) == FALSE

\* if page.metadata().is_empty() && current_page_id != self.root_page_id
delete_unlinks(t, current_page_id, page) ==
    page.metadata = <<>> /\ current_page_id # t.root_page_id

\* Variant of dirty_after_free: the dirty set is cleared.
dirty_after_free_clears(dirty_pages, current_page_id) == {}

\* self.dirty_pages.remove(&current_page_id) after free_page
dirty_after_free(dirty_pages, current_page_id) == dirty_pages \ {current_page_id}

\* Variant of delete_unlink: the successor's prev link is left as it was.
delete_unlink_keeps_next_prev(t, current_page_id, page) ==
    LET prev_page_id == page.prev_page_id
        next_page_id == page.next_page_id
        r1 == IF prev_page_id # 0 THEN relink(t, prev_page_id, "next", next_page_id)
              ELSE [t |-> t, err |-> ""]
    IN IF r1.err # "" THEN r1
       ELSE [t |-> [r1.t EXCEPT !.store = free_page(@, current_page_id),
                                !.dirty_pages = dirty_after_free(@, current_page_id)],
             err |-> ""]

\* The unlink-and-free branch of DataTree::delete.  Result: [t, err].
delete_unlink(t, current_page_id, page) ==
    LET prev_page_id == page.prev_page_id
        next_page_id == page.next_page_id
        r1 == IF prev_page_id # 0 THEN relink(t, prev_page_id, "next", next_page_id)
              ELSE [t |-> t, err |-> ""]
        r2 == IF next_page_id # 0 THEN relink(r1.t, next_page_id, "prev", prev_page_id)
              ELSE [t |-> r1.t, err |-> ""]
    IN IF r1.err # "" THEN r1
       ELSE IF r2.err # "" THEN r2
       ELSE [t |-> [r2.t EXCEPT !.store = free_page(@, current_page_id),
                                !.dirty_pages = dirty_after_free(@, current_page_id)],
             err |-> ""]

\* The loop of DataTree::delete.  Result: [t, err, found].
RECURSIVE delete_walk(_, _, _, _)
delete_walk(t, current_page_id, key, visited) ==
    IF current_page_id \in visited THEN [t |-> t, err |-> "hang", found |-> FALSE]
    ELSE LET r == get_page_bytes(t.store, current_page_id) IN
    IF r.err # "" THEN [t |-> t, err |-> r.err, found |-> FALSE]
    ELSE LET page == LeafPage_deserialize(r.bytes, BytesLen(r.bytes))
             del == LeafPage_delete(page, key)
             w == put_page_bytes(t.store, current_page_id, LeafPage_serialize(del.page))
             t1 == [t EXCEPT !.store = w.store, !.dirty_pages = @ \cup {current_page_id}]
             u == delete_unlink(t1, current_page_id, del.page)
             next_page_id == get_next_page_id(t.store, current_page_id)
         IN IF del.ok
            THEN IF w.err # "" THEN [t |-> t, err |-> w.err, found |-> FALSE]
                 ELSE IF delete_unlinks(t1, current_page_id, del.page)
                 THEN [t |-> u.t, err |-> u.err, found |-> u.err = ""]
                 ELSE [t |-> t1, err |-> "", found |-> TRUE]
            ELSE IF next_page_id # 0
            THEN delete_walk(t, next_page_id, key, visited \cup {current_page_id})
            ELSE [t |-> t, err |-> "", found |-> FALSE]

\* Variant of DataTree_delete: an unreadable root is reported as Ok(false).
DataTree_delete_ignores_root_error(t, key) ==
    LET root == get_page_bytes(t.store, t.root_page_id) IN
    IF root.err # "" THEN [t |-> t, err |-> "", found |-> FALSE]
    ELSE LET leaf_page_id == first_leaf_page_id(t, root.bytes, key)
         IN IF leaf_page_id = 0 THEN [t |-> t, err |-> "", found |-> FALSE]
            ELSE delete_walk(t, leaf_page_id, key, {})

\* Result: [t, err, found]; found is the boolean of Ok(found).
DataTree_delete(t, key) ==
    LET root == get_page_bytes(t.store, t.root_page_id) IN
    IF root.err # "" THEN [t |-> t, err |-> root.err, found |-> FALSE]
    ELSE LET leaf_page_id == first_leaf_page_id(t, root.bytes, key)
         IN IF leaf_page_id = 0 THEN [t |-> t, err |-> "", found |-> FALSE]
            ELSE delete_walk(t, leaf_page_id, key, {})

\* Variant of DataTree_flush: the root page stays in the dirty set.
DataTree_flush_keeps_root(t) == [t EXCEPT !.dirty_pages = @ \cap {t.root_page_id}]

\* DataTree::flush
DataTree_flush(t) == [t EXCEPT !.dirty_pages = {}]

\* ------------------------------------------------------------ the inputs
\* Value lengths around the value-size gate of the page size in use.
MaxValueLen == PageSize - 32 - 32

\* A short key, a 4-byte key and an 8-byte key (the width of a u64 key).
Keys == { <<1>>, <<3, 0, 0, 0>>, <<4, 0, 0, 0, 0, 0, 0, 0>> }

Values == { <<>>, <<7>>, Fill(MaxValueLen, 9), Fill(MaxValueLen + 1, 9) }

\* ------------------------------------------------------------- the state
VARIABLES
    tree,       \* the DataTree: [store, root_page_id, dirty_pages]
    lastOp,     \* the last call and what it returned
    model,      \* the idealized mapping: key -> Option<value>
    erred,      \* some put or delete has returned an error
    held        \* the page object a page-level test holds outside any store

vars == <<tree, lastOp, model, erred, held>>

\* The tests of the tree and of the store hold no page object.
NoPage == <<>>

NoOp == [op |-> "new", key |-> <<>>, value |-> <<>>, err |-> "", found |-> FALSE]

Init ==
    /\ tree \in { DataTree_new(InMemoryPageStore_with_page_size(PageSize)),
                  DataTree_new_with_branch_root(InMemoryPageStore_with_page_size(PageSize)) }
    /\ lastOp = NoOp
    /\ model = [k \in Keys |-> None]
    /\ erred = FALSE
    /\ held = NoPage

\* Each action binds the result of the call once (\E r \in {..}) and
\* installs it: the tree it leaves and what it returned.
Put(key, value) ==
    \E r \in {DataTree_put(tree, key, value)} :
    /\ r.t.store.next_page_id <= MaxPageId + 1
    /\ tree' = r.t
    /\ lastOp' = [op |-> "put", key |-> key, value |-> value, err |-> r.err,
                  found |-> FALSE]
    /\ model' = IF r.err = "" THEN [model EXCEPT ![key] = Some(value)] ELSE model
    /\ erred' = (erred \/ r.err # "")
    /\ UNCHANGED held

Delete(key) ==
    \E r \in {DataTree_delete(tree, key)} :
    /\ tree' = r.t
    /\ lastOp' = [op |-> "delete", key |-> key, value |-> <<>>, err |-> r.err,
                  found |-> r.found]
    /\ model' = IF r.err = "" THEN [model EXCEPT ![key] = None] ELSE model
    /\ erred' = (erred \/ r.err # "")
    /\ UNCHANGED held

Flush ==
    /\ tree' = DataTree_flush(tree)
    /\ lastOp' = [op |-> "flush", key |-> <<>>, value |-> <<>>, err |-> "",
                  found |-> FALSE]
    /\ UNCHANGED <<model, erred, held>>

Next ==
    \/ \E key \in Keys, value \in Values : Put(key, value)
    \/ \E key \in Keys : Delete(key)
    \/ Flush

Spec == Init /\ [][Next]_vars

\* ------------------------------------------------ the tree with corruption
\* The tree operations, get included, on a store whose pages a test may
\* corrupt through store_mut().corrupt_page_for_testing.

CorruptKeys == { <<1>>, <<3, 0, 0, 0>> }

\* Values that pass the value-size gate.
CorruptValues == { <<>>, <<7>> }

\* Ids of the pages the test corrupts: the first three pages of the store.
\* For a leaf root these are the root and the first two data leaves, for a
\* branch root the anchor leaf, the root and the first data leaf.
CorruptIds == 1..3

Get(key) ==
    \E r \in {DataTree_get(tree, key)} :
    /\ tree' = DataTree_get_tree(tree, key)
    /\ lastOp' = [op |-> "get", key |-> key, value |-> r.value.v, err |-> r.err,
                  found |-> r.value.some]
    /\ UNCHANGED <<model, erred, held>>

Corrupt(page_id) ==
    /\ tree' = [tree EXCEPT !.store = corrupt_page_for_testing(@, page_id)]
    /\ lastOp' = [NoOp EXCEPT !.op = "corrupt_page_for_testing"]
    /\ UNCHANGED <<model, erred, held>>

CorruptNext ==
    \/ \E key \in CorruptKeys, value \in CorruptValues : Put(key, value)
    \/ \E key \in CorruptKeys : Delete(key)
    \/ \E key \in CorruptKeys : Get(key)
    \/ Flush
    \/ \E page_id \in CorruptIds : Corrupt(page_id)

CorruptSpec == Init /\ [][CorruptNext]_vars

\* ------------------------------------------- the page store called directly
\* The store of a tree reached through DataTree::store_mut(): the calls of
\* the PageStore trait and corrupt_page_for_testing.

\* Largest page id used by a direct store call.
MaxStoreId == 3

\* Ids handed to put_page_bytes, free_page, corrupt_page_for_testing and
\* link_pages: allocated or not.
StoreIds == 1..MaxStoreId

\* A serialized leaf holding the one entry (<<1>>, value).
LeafImage(value) ==
    LeafPage_serialize(LeafPage_insert(LeafPage_new(PageSize), <<1>>, value).page)

\* Value length for which LeafImage is the largest image put_page_bytes takes.
MaxImageValueLen == PageSize - CrcSize - LeafHeaderSize - LeafMetaSize - 1

\* Payloads handed to put_page_bytes: the largest that fits and the smallest
\* that does not.
StoreImages == { LeafImage(Fill(MaxImageValueLen, 9)), LeafImage(Fill(MaxImageValueLen + 1, 9)) }

\* Pairs handed to link_pages: the lower id is linked in front of the higher.
LinkPairs == {pair \in StoreIds \X StoreIds : pair[1] < pair[2]}

\* The last store call: its arguments, the page count before it, its error.
StoreNoOp == [op |-> "new", id |-> 0, id2 |-> 0, len |-> 0, count |-> 0, err |-> ""]

StoreInit ==
    /\ tree = DataTree_new(InMemoryPageStore_with_page_size(PageSize))
    /\ lastOp = StoreNoOp
    /\ model = [k \in Keys |-> None]
    /\ erred = FALSE
    /\ held = NoPage

AllocatePage ==
    \E r \in {allocate_page(tree.store)} :
    /\ r.page_id <= MaxStoreId
    /\ tree' = [tree EXCEPT !.store = r.store]
    /\ lastOp' = [StoreNoOp EXCEPT !.op = "allocate_page", !.id = r.page_id]
    /\ UNCHANGED <<model, erred, held>>

PutPageBytes(page_id, bytes) ==
    \E r \in {put_page_bytes(tree.store, page_id, bytes)} :
    /\ tree' = [tree EXCEPT !.store = r.store]
    /\ lastOp' = [StoreNoOp EXCEPT !.op = "put_page_bytes", !.id = page_id,
                                   !.len = BytesLen(bytes), !.err = r.err]
    /\ UNCHANGED <<model, erred, held>>

FreePage(page_id) ==
    /\ tree' = [tree EXCEPT !.store = free_page(@, page_id)]
    /\ lastOp' = [StoreNoOp EXCEPT !.op = "free_page", !.id = page_id,
                                   !.count = get_page_count(tree.store)]
    /\ UNCHANGED <<model, erred, held>>

CorruptPage(page_id) ==
    /\ tree' = [tree EXCEPT !.store = corrupt_page_for_testing(@, page_id)]
    /\ lastOp' = [StoreNoOp EXCEPT !.op = "corrupt_page_for_testing", !.id = page_id]
    /\ UNCHANGED <<model, erred, held>>

LinkPages(prev_page_id, next_page_id) ==
    \E r \in {link_pages(tree.store, prev_page_id, next_page_id)} :
    /\ tree' = [tree EXCEPT !.store = r.store]
    /\ lastOp' = [StoreNoOp EXCEPT !.op = "link_pages", !.id = prev_page_id,
                                   !.id2 = next_page_id, !.err = r.err]
    /\ UNCHANGED <<model, erred, held>>

StoreNext ==
    \/ AllocatePage
    \/ \E page_id \in StoreIds, bytes \in StoreImages : PutPageBytes(page_id, bytes)
    \/ \E page_id \in StoreIds : FreePage(page_id)
    \/ \E page_id \in StoreIds : CorruptPage(page_id)
    \/ \E pair \in LinkPairs : LinkPages(pair[1], pair[2])

StoreSpec == StoreInit /\ [][StoreNext]_vars

\* ------------------------------------------------ a branch page on its own
\* A test that builds a BranchPage, inserts entries, looks keys up and
\* reloads the page from its serialized image (test_branch_page_operations).

\* Most entries the test inserts.
MaxBranchEntries == 4

\* first_key values of the inserted entries and keys looked up: the ends of
\* the u64 range and values next to them.
BranchKeys == {0, 1, 2, U64_MAX - 1, U64_MAX}

BranchNoOp == [op |-> "new", key |-> 0, page_id |-> 0]

\* The (page_id, first_key) pairs a test may insert.
BranchEntries == [page_id : 1..MaxBranchEntries, first_key : BranchKeys]

BranchInit ==
    /\ tree = DataTree_new(InMemoryPageStore_with_page_size(PageSize))
    /\ lastOp = BranchNoOp
    /\ model = [e \in BranchEntries |-> 0]
    /\ erred = FALSE
    /\ held = BranchPage_new(PageSize)

\* insert(page_id, first_key) with a page id no entry carries yet; model
\* counts how many times each pair has been inserted.
BranchInsert(first_key) ==
    /\ Len(held.entries) < MaxBranchEntries
    /\ \E pos \in BranchPage_insert_positions(held.entries, first_key) :
          held' = BranchPage_insert_at(held, pos, Len(held.entries) + 1, first_key)
    /\ lastOp' = [op |-> "insert", key |-> first_key,
                  page_id |-> Len(held.entries) + 1]
    /\ model' = [model EXCEPT
                   ![[page_id |-> Len(held.entries) + 1, first_key |-> first_key]] = @ + 1]
    /\ UNCHANGED <<tree, erred>>

BranchFind(key) ==
    /\ lastOp' = [op |-> "find_page_id", key |-> key,
                  page_id |-> BranchPage_find_page_id(held, key)]
    /\ UNCHANGED <<tree, model, erred, held>>

\* BranchPage::deserialize(&branch_page.serialize())
BranchReload ==
    /\ held' = BranchPage_deserialize(BranchPage_serialize(held),
                                      BranchBytesLen(BranchPage_serialize(held)))
    /\ lastOp' = [BranchNoOp EXCEPT !.op = "deserialize"]
    /\ UNCHANGED <<tree, model, erred>>

BranchNext ==
    \/ \E first_key \in BranchKeys : BranchInsert(first_key)
    \/ \E key \in BranchKeys : BranchFind(key)
    \/ BranchReload

BranchSpec == BranchInit /\ [][BranchNext]_vars

\* -------------------------------------------- an RLE leaf page on its own
\* A test that builds an empty RleLeafPage and calls put, delete,
\* compact_data and get on it.

\* The size of the page under test: room for four runs and two value bytes.
RlePageSize == 171

\* Longest data region the test lets the page grow (values a put replaces
\* stay in data until a compaction).
MaxRleData == 2

\* Keys next to each other and at both ends of the u64 range.
RleKeys == {0, 1, 2, U64_MAX}

RleValues == { <<>>, <<7>> }

RleNoOp == [op |-> "new_empty", key |-> 0, value |-> None, ok |-> FALSE, panic |-> FALSE]

RleInit ==
    /\ tree = DataTree_new(InMemoryPageStore_with_page_size(PageSize))
    /\ lastOp = RleNoOp
    /\ model = [k \in RleKeys |-> None]
    /\ erred = FALSE
    /\ held = RleLeafPage_new_empty(RlePageSize)

\* The test goes on until a call panics or leaves a run whose start_key is
\* above its end_key (a put whose `+ 1` wrapped around in a release build).
RleGoesOn ==
    /\ ~lastOp.panic
    /\ \A i \in 1..Len(held.metadata) :
          held.metadata[i].start_key <= held.metadata[i].end_key

RlePut(key, value) ==
    /\ RleGoesOn
    /\ \E overflow_checks \in BOOLEAN :
       \E r \in {RleLeafPage_put(held, key, value, overflow_checks)} :
          /\ Len(r.page.data) <= MaxRleData
          /\ held' = r.page
          /\ lastOp' = [op |-> "put", key |-> key, value |-> Some(value),
                        ok |-> r.ok, panic |-> r.panic]
          /\ model' = IF r.ok THEN [model EXCEPT ![key] = Some(value)] ELSE model
    /\ UNCHANGED <<tree, erred>>

RleDelete(key) ==
    /\ RleGoesOn
    /\ \E r \in {RleLeafPage_delete(held, key)} :
          /\ held' = r.page
          /\ lastOp' = [op |-> "delete", key |-> key, value |-> None,
                        ok |-> r.ok, panic |-> r.panic]
          /\ model' = IF r.ok THEN [model EXCEPT ![key] = None] ELSE model
    /\ UNCHANGED <<tree, erred>>

RleCompact ==
    /\ RleGoesOn
    /\ \E r \in {RleLeafPage_compact_data(held)} :
          /\ held' = r.page
          /\ lastOp' = [RleNoOp EXCEPT !.op = "compact_data", !.panic = r.panic]
    /\ UNCHANGED <<tree, model, erred>>

RleGet(key) ==
    /\ RleGoesOn
    /\ \E r \in {RleLeafPage_get(held, key)} :
          lastOp' = [op |-> "get", key |-> key, value |-> r.value,
                     ok |-> r.value.some, panic |-> r.panic]
    /\ UNCHANGED <<tree, model, erred, held>>

RleNext ==
    \/ \E key \in RleKeys, value \in RleValues : RlePut(key, value)
    \/ \E key \in RleKeys : RleDelete(key)
    \/ RleCompact
    \/ \E key \in RleKeys : RleGet(key)

RleSpec == RleInit /\ [][RleNext]_vars

\* ------------------------------------------------- a leaf page on its own
\* A test that builds a LeafPage with new_with_size and calls insert,
\* delete, get and the link setters on it.

\* The size of the page under test: room for three entries and seven bytes
\* of keys and values.
LeafPageSize == 96

\* The empty key and two one-byte keys.
LeafKeys == { <<>>, <<1>>, <<2>> }

\* The empty value, a short one, one that fills a third of the page and one
\* larger than the page.
LeafValues == { <<>>, <<7>>, Fill(30, 9), Fill(LeafPageSize + 1, 9) }

\* Page ids handed to the link setters.
LeafLinkIds == {0, 5}

LeafNoOp == [op |-> "new", key |-> <<>>, value |-> None, ok |-> FALSE]

set_next_page_id(page, page_id) == [page EXCEPT !.next_page_id = page_id]

LeafInit ==
    /\ tree = DataTree_new(InMemoryPageStore_with_page_size(PageSize))
    /\ lastOp = LeafNoOp
    /\ model = [k \in LeafKeys |-> None]
    /\ erred = FALSE
    /\ held = LeafPage_new(LeafPageSize)

LeafInsert(key, value) ==
    \E r \in {LeafPage_insert(held, key, value)} :
    /\ held' = r.page
    /\ lastOp' = [op |-> "insert", key |-> key, value |-> Some(value), ok |-> r.ok]
    /\ model' = IF r.ok THEN [model EXCEPT ![key] = Some(value)] ELSE model
    /\ UNCHANGED <<tree, erred>>

LeafDelete(key) ==
    \E r \in {LeafPage_delete(held, key)} :
    /\ held' = r.page
    /\ lastOp' = [op |-> "delete", key |-> key, value |-> None, ok |-> r.ok]
    /\ model' = [model EXCEPT ![key] = None]
    /\ UNCHANGED <<tree, erred>>

LeafGet(key) ==
    /\ lastOp' = [op |-> "get", key |-> key, value |-> LeafPage_get(held, key),
                  ok |-> LeafPage_get(held, key).some]
    /\ UNCHANGED <<tree, model, erred, held>>

LeafSetPrev(page_id) ==
    /\ held' = set_prev_page_id(held, page_id)
    /\ lastOp' = [LeafNoOp EXCEPT !.op = "set_prev_page_id"]
    /\ UNCHANGED <<tree, model, erred>>

LeafSetNext(page_id) ==
    /\ held' = set_next_page_id(held, page_id)
    /\ lastOp' = [LeafNoOp EXCEPT !.op = "set_next_page_id"]
    /\ UNCHANGED <<tree, model, erred>>

LeafNext ==
    \/ \E key \in LeafKeys, value \in LeafValues : LeafInsert(key, value)
    \/ \E key \in LeafKeys : LeafDelete(key)
    \/ \E key \in LeafKeys : LeafGet(key)
    \/ \E page_id \in LeafLinkIds : LeafSetPrev(page_id)
    \/ \E page_id \in LeafLinkIds : LeafSetNext(page_id)

LeafSpec == LeafInit /\ [][LeafNext]_vars

\* ------------------------------------------------- what the claims observe
Pages(t) == t.store.pages
PageIds(t) == DOMAIN t.store.pages

\* The stored image of page id parsed as a leaf.
LeafAt(t, id) ==
    LeafPage_deserialize(Pages(t)[id].payload, BytesLen(Pages(t)[id].payload))

IsBranchRoot(t) == Pages(t)[t.root_page_id].payload.tag = PageType_BranchPage

\* The leaf at which every chain walk starts: the child named by the branch
\* root's entry, or the root itself for a tree whose root is a leaf.
Anchor(t) ==
    IF IsBranchRoot(t) THEN Pages(t)[t.root_page_id].payload.entries[1].page_id
    ELSE t.root_page_id

LeafIds(t) == {id \in PageIds(t) : Pages(t)[id].payload.tag = PageType_LeafPage}

\* What get returns for every key.
Observable(t) == [k \in Keys |-> DataTree_get(t, k)]

Stored(t, key) == DataTree_get(t, key).value.some

\* The first page of the chain that holds key (0 when none does): the page
\* in which get finds it and delete removes it.
RECURSIVE HolderFrom(_, _, _, _)
HolderFrom(t, id, key, visited) ==
    IF id = 0 \/ id \in visited \/ id \notin PageIds(t) THEN 0
    ELSE IF LeafPage_get(LeafAt(t, id), key).some THEN id
    ELSE HolderFrom(t, LeafAt(t, id).next_page_id, key, visited \cup {id})

Holder(t, key) == HolderFrom(t, Anchor(t), key, {})

\* Ids handed out by allocate_page that are no longer in the store.
FreedIds(t) == (1..(t.store.next_page_id - 1)) \ PageIds(t)

\* ----------------------------------------------------------------- claims

\* C1: in a run in which no call has returned an error, get(k) returns for
\* every key the value of the latest put(k, v) not followed by delete(k),
\* and absent when there is none: the tree is a map from key to value.
C1_TreeIsAMap ==
    ~erred => \A k \in Keys : DataTree_get(tree, k) = [err |-> "", value |-> model[k]]

\* C2: a get(k) issued right after a successful put(k, v) returns exactly v,
\* also when the leaf holding k could not take the longer value.
C2_GetAfterPut ==
    (lastOp.op = "put" /\ lastOp.err = "")
        => DataTree_get(tree, lastOp.key) = [err |-> "", value |-> Some(lastOp.value)]

\* C3: delete(k) of a stored key returns true, an immediately following
\* delete(k) returns false, and get(k) after the two calls returns absent.
C3_DeleteTwice ==
    /\ \A k \in Keys : Stored(tree, k) =>
           LET d == DataTree_delete(tree, k) IN d.err = "" /\ d.found
    /\ (lastOp.op = "delete" /\ lastOp.err = "" /\ lastOp.found) =>
           LET d == DataTree_delete(tree, lastOp.key)
           IN /\ d.err = ""
              /\ ~d.found
              /\ DataTree_get(d.t, lastOp.key) = [err |-> "", value |-> None]

C5_EmptyLeafIsFreedStep ==
    (lastOp'.op = "delete" /\ lastOp'.err = "" /\ lastOp'.found) =>
        LET h == Holder(tree, lastOp'.key)
            page == LeafAt(tree, h)
        IN (Len(page.metadata) = 1 /\ h # Anchor(tree)) =>
              /\ h \notin PageIds(tree')
              /\ page.prev_page_id # 0 =>
                    /\ page.prev_page_id \in PageIds(tree')
                    /\ LeafAt(tree', page.prev_page_id).next_page_id = page.next_page_id
              /\ page.next_page_id # 0 =>
                    /\ page.next_page_id \in PageIds(tree')
                    /\ LeafAt(tree', page.next_page_id).prev_page_id = page.prev_page_id
              /\ \A id \in LeafIds(tree') :
                    /\ LeafAt(tree', id).next_page_id # h
                    /\ LeafAt(tree', id).prev_page_id # h

C5_EmptyLeafIsFreed == [][C5_EmptyLeafIsFreedStep]_vars

\* C5 witness: a delete has freed a leaf that had a predecessor and a
\* successor: the two are now linked to each other.
C5_Witness ==
    /\ lastOp.op = "delete" /\ lastOp.found
    /\ \E f \in FreedIds(tree) : \E p, n \in LeafIds(tree) :
          /\ p < f /\ f < n
          /\ LeafAt(tree, p).next_page_id = n
          /\ LeafAt(tree, n).prev_page_id = p

\* C6: delete(k) of a key that is not stored returns false, not an error,
\* and changes nothing: page images, page count and dirty set stay as
\* they were.
C6_DeleteAbsentStep ==
    (lastOp'.op = "delete" /\ ~Stored(tree, lastOp'.key)) =>
        /\ lastOp'.err = ""
        /\ ~lastOp'.found
        /\ tree' = tree

C6_DeleteAbsent == [][C6_DeleteAbsentStep]_vars

\* C6 witness: a delete of an absent key has returned false on a tree that
\* holds other keys.
C6_Witness ==
    /\ lastOp.op = "delete" /\ lastOp.err = "" /\ ~lastOp.found
    /\ \E k \in Keys : Stored(tree, k)

\* C7: right after a successful put(k, v), a second put(k, v) returns ok and
\* leaves what get returns for every key as the first put left it.
C7_PutIdempotent ==
    (lastOp.op = "put" /\ lastOp.err = "") =>
        LET r == DataTree_put(tree, lastOp.key, lastOp.value)
        IN r.err = "" /\ Observable(r.t) = Observable(tree)

\* C7 witness: the state after put(k, v); put(k, v), with k stored.
C7_Witness ==
    /\ lastOp.op = "put" /\ lastOp.err = ""
    /\ Stored(tree, lastOp.key)
    /\ DataTree_put(tree, lastOp.key, lastOp.value).t = tree

\* C8: a put whose value is longer than the single-leaf capacity
\* (page_size - 64) fails with the value-too-large error and touches
\* nothing: no page allocated, no page image changed, dirty set unchanged.
C8_ValueGateStep ==
    (lastOp'.op = "put" /\ Len(lastOp'.value) > tree.store.page_size - 64) =>
        /\ lastOp'.err = "ValueTooLarge"
        /\ tree' = tree

C9_GatedPutSucceeds ==
    (lastOp.op = "put" /\ Len(lastOp.value) <= tree.store.page_size - 64)
        => lastOp.err = ""

\* C10 as claimed: after any successful put or delete the dirty set is a
\* superset of the dirty set before the call.
C10_DirtyOnlyGrowsStep ==
    (lastOp'.op \in {"put", "delete"} /\ lastOp'.err = "")
        => tree.dirty_pages \subseteq tree'.dirty_pages

C10_DirtyOnlyGrows == [][C10_DirtyOnlyGrowsStep]_vars

\* C10 amended: after any successful put or delete the dirty set holds
\* every id it held before the call except the id of the leaf that the
\* delete unlinked and freed.
C10_DirtyGrowsButFreedStep ==
    (lastOp'.op \in {"put", "delete"} /\ lastOp'.err = "") =>
        (tree.dirty_pages \ (PageIds(tree) \ PageIds(tree'))) \subseteq tree'.dirty_pages

C10_DirtyGrowsButFreed == [][C10_DirtyGrowsButFreedStep]_vars

\* C10 witness: a delete has freed a leaf; its id is not in the dirty set
\* while the ids of its relinked neighbours are.
C10_Witness ==
    /\ lastOp.op = "delete" /\ lastOp.found
    /\ \E f \in FreedIds(tree) : f \notin tree.dirty_pages
    /\ tree.dirty_pages # {}

\* C14: allocate_page never returns an id that is in the store at the time
\* of the call, whatever allocate_page, put_page_bytes (also to ids never
\* allocated) and free_page calls came before; the ids it returns strictly
\* increase.
C14_AllocateFreshStep ==
    lastOp'.op = "allocate_page" =>
        /\ lastOp'.id \notin PageIds(tree)
        /\ lastOp'.id >= tree.store.next_page_id
        /\ tree'.store.next_page_id > lastOp'.id

C14_AllocateFresh == [][C14_AllocateFreshStep]_vars

\* A store call of this step wrote, removed or complemented the image of id.
Touches(op, id) ==
    \/ op.op \in {"free_page", "corrupt_page_for_testing", "allocate_page"} /\ op.id = id
    \/ op.op = "put_page_bytes" /\ op.id = id /\ op.err = ""

\* C15: once the stored image of a page is corrupted, get_page_bytes of it
\* fails with the page-corruption error (not with not-found), and goes on
\* failing after every later call until the page is rewritten by
\* put_page_bytes or freed; corrupting a page changes what get_page_bytes
\* returns for no other page.
C15_CorruptionDetectedStep ==
    /\ (lastOp'.op = "corrupt_page_for_testing" /\ lastOp'.id \in PageIds(tree)) =>
          /\ get_page_bytes(tree.store, lastOp'.id).err = ""
                => get_page_bytes(tree'.store, lastOp'.id).err = "PageCorruption"
          /\ \A other \in StoreIds \ {lastOp'.id} :
                get_page_bytes(tree'.store, other) = get_page_bytes(tree.store, other)
    /\ \A id \in PageIds(tree) :
          (get_page_bytes(tree.store, id).err = "PageCorruption" /\ ~Touches(lastOp', id))
              => get_page_bytes(tree'.store, id).err = "PageCorruption"

C15_CorruptionDetected == [][C15_CorruptionDetectedStep]_vars

\* C15 witness: a link_pages call has met a corrupted page and failed on
\* it; the page still fails to read while another page reads fine.
C15_Witness ==
    /\ lastOp.op = "link_pages" /\ lastOp.err = "PageCorruption"
    /\ \E id, other \in PageIds(tree) :
          /\ get_page_bytes(tree.store, id).err = "PageCorruption"
          /\ get_page_bytes(tree.store, other).err = ""

\* C17: put_page_bytes(id, bytes) fails exactly when len(bytes) + 4 exceeds
\* the page size, and a failed call changes nothing: the images, the page
\* count and the dirty set are as before.
C17_PutPageBytesOversizeStep ==
    lastOp'.op = "put_page_bytes" =>
        /\ (lastOp'.err # "") <=> (lastOp'.len + 4 > tree.store.page_size)
        /\ lastOp'.err # "" =>
              /\ tree' = tree
              /\ get_page_bytes(tree'.store, lastOp'.id) = get_page_bytes(tree.store, lastOp'.id)
              /\ get_page_count(tree'.store) = get_page_count(tree.store)

C17_PutPageBytesOversize == [][C17_PutPageBytesOversizeStep]_vars

\* C17 witness: an oversize put_page_bytes to an id that holds an image has
\* failed, and the image is still read.
C17_Witness ==
    /\ lastOp.op = "put_page_bytes" /\ lastOp.err = "PageTooLarge"
    /\ lastOp.id \in PageIds(tree)
    /\ get_page_bytes(tree.store, lastOp.id).err = ""

\* C18: free_page(id) removes exactly the page id: afterwards the id is
\* not in the store and reads of it fail with not-found, the page count is
\* one less and every other image is as before; for an id that is not in
\* the store the call changes nothing.
C18_FreePageStep ==
    lastOp'.op = "free_page" =>
        LET id == lastOp'.id IN
        /\ ~page_exists(tree'.store, id)
        /\ get_page_bytes(tree'.store, id).err = "NotFound"
        /\ page_exists(tree.store, id) =>
              get_page_count(tree'.store) = get_page_count(tree.store) - 1
        /\ PageIds(tree') = PageIds(tree) \ {id}
        /\ \A other \in PageIds(tree') : Pages(tree')[other] = Pages(tree)[other]
        /\ ~page_exists(tree.store, id) => tree' = tree

C18_FreePage == [][C18_FreePageStep]_vars

\* C18 witness: a free_page has removed one page of several.
C18_Witness ==
    /\ lastOp.op = "free_page"
    /\ get_page_count(tree.store) = lastOp.count - 1
    /\ get_page_count(tree.store) >= 1

\* C19: link_pages(prev_id, next_id) updates both links or none: on success
\* get_next_page_id(prev_id) = next_id and get_prev_page_id(next_id) =
\* prev_id with the entries of both pages kept, and when it returns an
\* error no page image has changed.
C19_LinkPagesAtomicStep ==
    lastOp'.op = "link_pages" =>
        IF lastOp'.err = ""
        THEN /\ get_next_page_id(tree'.store, lastOp'.id) = lastOp'.id2
             /\ get_prev_page_id(tree'.store, lastOp'.id2) = lastOp'.id
             /\ \A id \in {lastOp'.id, lastOp'.id2} :
                   /\ LeafAt(tree', id).metadata = LeafAt(tree, id).metadata
                   /\ LeafAt(tree', id).data = LeafAt(tree, id).data
        ELSE Pages(tree') = Pages(tree)

C19_LinkPagesAtomic == [][C19_LinkPagesAtomicStep]_vars

\* The root page fails its CRC check.
RootCorrupted(t) == get_page_bytes(t.store, t.root_page_id).err = "PageCorruption"

\* C13: get is read-only: a get, whether it hits, misses or fails, changes
\* no page image, no page count and no dirty-set entry.
C13_GetReadOnlyStep == lastOp'.op = "get" => tree' = tree

C13_GetReadOnly == [][C13_GetReadOnlyStep]_vars

\* C13 witness: a get has failed on a corrupted page of a tree that has
\* dirty pages.
C13_Witness ==
    /\ lastOp.op = "get" /\ lastOp.err = "PageCorruption"
    /\ tree.dirty_pages # {}

\* C16: while the root page is corrupted every get, every delete and every
\* put of an acceptable value returns an error and changes nothing: page
\* images, page count and dirty set are as before.
C16_CorruptRootStep ==
    (RootCorrupted(tree) /\ lastOp'.op \in {"get", "put", "delete"}) =>
        /\ lastOp'.err # ""
        /\ tree' = tree

C16_CorruptRoot == [][C16_CorruptRootStep]_vars

\* C16 witness: a put has failed on the corrupted root of a tree that holds
\* data pages and dirty pages.
C16_Witness ==
    /\ RootCorrupted(tree)
    /\ lastOp.op = "put" /\ lastOp.err = "PageCorruption"
    /\ get_page_count(tree.store) > 2
    /\ tree.dirty_pages # {}

\* C11 as claimed: flush leaves the dirty set empty and changes no page
\* image, no link and no get result; the first put or delete after a flush
\* makes the dirty set non-empty again.
C11_FlushStep ==
    /\ lastOp'.op = "flush" =>
          /\ tree'.dirty_pages = {}
          /\ tree'.store = tree.store
          /\ tree'.root_page_id = tree.root_page_id
          /\ Observable(tree') = Observable(tree)
    /\ (lastOp.op = "flush" /\ lastOp'.op \in {"put", "delete"}) =>
          tree'.dirty_pages # {}

C11_Flush == [][C11_FlushStep]_vars

\* C11 amended: flush leaves the dirty set empty and changes no page image,
\* no link and no get result; the first put after a flush that returns ok,
\* or delete that returns true, makes the dirty set non-empty again.
C11_FlushThenWriteStep ==
    /\ lastOp'.op = "flush" =>
          /\ tree'.dirty_pages = {}
          /\ tree'.store = tree.store
          /\ tree'.root_page_id = tree.root_page_id
          /\ Observable(tree') = Observable(tree)
    /\ (/\ lastOp.op = "flush"
        /\ \/ lastOp'.op = "put" /\ lastOp'.err = ""
           \/ lastOp'.op = "delete" /\ lastOp'.err = "" /\ lastOp'.found) =>
          tree'.dirty_pages # {}

C11_FlushThenWrite == [][C11_FlushThenWriteStep]_vars

\* C11 witness: a flush has emptied the dirty set of a tree that holds keys
\* in pages of their own.
C11_Witness ==
    /\ lastOp.op = "flush"
    /\ tree.dirty_pages = {}
    /\ \E k \in Keys : Stored(tree, k)
    /\ FreedIds(tree) # {}

\* C12: the dirty set holds every live page whose image was written or
\* created since the last flush: the pages created by tree construction,
\* and after every put or delete, failed ones included, every page the call
\* created or changed; no id of a live page is dropped from it.
C12_DirtyCompleteStep ==
    lastOp'.op \in {"put", "delete"} =>
        /\ \A id \in PageIds(tree') :
              (id \notin PageIds(tree) \/ Pages(tree')[id] # Pages(tree)[id])
                  => id \in tree'.dirty_pages
        /\ (tree.dirty_pages \cap PageIds(tree')) \subseteq tree'.dirty_pages

C12_DirtyComplete ==
    /\ (lastOp.op = "new" => PageIds(tree) \subseteq tree.dirty_pages)
    /\ [][C12_DirtyCompleteStep]_vars

\* C20: the root page of a tree built by DataTree::new is tagged Branch and
\* holds exactly one entry, (anchor leaf id, first_key 0), naming a leaf in
\* the store, and it stays so after any sequence of put and delete calls.
C20_RootIsBranch ==
    /\ tree.root_page_id \in PageIds(tree)
    /\ Pages(tree)[tree.root_page_id].payload.tag = PageType_BranchPage
    /\ Pages(tree)[tree.root_page_id].payload.count = 1
    /\ Pages(tree)[tree.root_page_id].payload.entries[1].first_key = 0
    /\ Pages(tree)[tree.root_page_id].payload.entries[1].page_id \in LeafIds(tree)

\* C21: when the root page's tag byte is not Branch, get, put and delete
\* each fail with the root-not-branch error and read or modify no other
\* page: the tree is left as it was and the root is never walked as a leaf.
C21_RootNotBranchStep ==
    (/\ get_page_bytes(tree.store, tree.root_page_id).err = ""
     /\ ~IsBranchRoot(tree)
     /\ lastOp'.op \in {"get", "put", "delete"}) =>
        /\ lastOp'.err = "RootNotBranch"
        /\ tree' = tree

C21_RootNotBranch == [][C21_RootNotBranchStep]_vars

\* The entries of a branch page are sorted by first_key.
BranchSorted(entries) ==
    \A i \in 1..(Len(entries) - 1) : entries[i].first_key <= entries[i + 1].first_key

\* Position of the entry find_page_id chose (0 when it returned None).
ChosenEntry(p, key) ==
    IF BranchPage_find_page_id(p, key) = 0 THEN 0
    ELSE CHOOSE i \in 1..Len(p.entries) :
            p.entries[i].page_id = BranchPage_find_page_id(p, key)

\* C22: for a branch page with entries sorted by first_key, find_page_id(k)
\* returns the child of the entry with the largest first_key <= k, for every
\* k including 0 and u64::MAX; the first entry's child when k is below every
\* first_key; absent with zero entries; and for k1 <= k2 the entry chosen
\* for k1 is never after the entry chosen for k2.
C22_FindPageId ==
    (lastOp.op \in {"insert", "find_page_id", "deserialize"}
        /\ BranchSorted(held.entries)) =>
    LET entries == held.entries
        n == Len(entries)
    IN /\ \A k \in BranchKeys :
            IF n = 0 THEN BranchPage_find_page_id(held, k) = 0
            ELSE IF k < entries[1].first_key
                 THEN BranchPage_find_page_id(held, k) = entries[1].page_id
            ELSE /\ ChosenEntry(held, k) \in 1..n
                 /\ entries[ChosenEntry(held, k)].first_key <= k
                 /\ \A j \in 1..n :
                       entries[j].first_key <= k
                           => entries[j].first_key <= entries[ChosenEntry(held, k)].first_key
       /\ \A k1 \in BranchKeys, k2 \in BranchKeys :
            k1 <= k2 => ChosenEntry(held, k1) <= ChosenEntry(held, k2)

\* C22 witness: u64::MAX has been looked up in a page of several entries,
\* two of them with the same first_key, none with first_key 0, and the
\* last entry's child was returned.
C22_Witness ==
    /\ lastOp.op = "find_page_id" /\ lastOp.key = U64_MAX
    /\ Len(held.entries) >= 3
    /\ held.entries[1].first_key > 0
    /\ \E i \in 1..(Len(held.entries) - 1) :
          held.entries[i].first_key = held.entries[i + 1].first_key
    /\ lastOp.page_id = held.entries[Len(held.entries)].page_id
    /\ held.entries[Len(held.entries)].first_key < U64_MAX

\* The public fields of a leaf page: type, capacity, the entries in order
\* with their keys and values, and the links.
LeafFields(p) ==
    [page_type |-> p.page_type, page_size |-> p.page_size,
     entries |-> [i \in 1..Len(p.metadata) |->
                    <<MetaKey(p, p.metadata[i]), MetaValue(p, p.metadata[i])>>],
     prev_page_id |-> p.prev_page_id, next_page_id |-> p.next_page_id]

\* deserialize(serialize(p)) for each page kind.
LeafRoundTrip(p) ==
    LeafPage_deserialize(LeafPage_serialize(p), LeafBytesLen(LeafPage_serialize(p)))
BranchRoundTrip(p) ==
    BranchPage_deserialize(BranchPage_serialize(p), BranchBytesLen(BranchPage_serialize(p)))
RleRoundTrip(p) == RleLeafPage_deserialize(RleLeafPage_serialize(p))

\* The RLE page the test holds comes back from its image as it was.
RleRoundTripHolds == RleRoundTrip(held) = held

\* C23: for every leaf, branch and RLE page, deserialize(serialize(p))
\* equals p on every public field: page type, page_size, the entries in
\* order with their values, and the prev/next links.  Checked on the RLE
\* page the test holds and on the leaf and branch pages of the same
\* page_size that hold no entry or one entry.
C23_CodecRoundTrip ==
    /\ RleRoundTripHolds
    /\ LeafFields(LeafRoundTrip(LeafPage_new(held.page_size)))
          = LeafFields(LeafPage_new(held.page_size))
    /\ \A key \in CorruptKeys, value \in CorruptValues :
          LET p == LeafPage_insert(LeafPage_new(held.page_size), key, value).page
          IN LeafFields(LeafRoundTrip(p)) = LeafFields(p)
    /\ BranchRoundTrip(BranchPage_new(held.page_size)) = BranchPage_new(held.page_size)
    /\ \A first_key \in BranchKeys :
          LET p == BranchPage_insert(BranchPage_new(held.page_size), 1, first_key)
          IN BranchRoundTrip(p) = p

\* Runs i and j cover adjacent key ranges and carry byte-equal values.
AdjacentEqual(p, i, j) ==
    /\ p.metadata[i].end_key < U64_MAX
    /\ p.metadata[i].end_key + 1 = p.metadata[j].start_key
    /\ RleInRange(p, p.metadata[i]) /\ RleInRange(p, p.metadata[j])
    /\ RleValue(p, p.metadata[i]) = RleValue(p, p.metadata[j])

\* C24: after a put no two runs with adjacent key ranges (end_key + 1 =
\* start_key of the next) carry byte-equal values: a put that extends a
\* run, creates a singleton or splits a run merges it with every
\* neighbouring run of the same value.
C24_AdjacentRunsMerged ==
    (lastOp.op = "put" /\ ~lastOp.panic) =>
        \A i \in 1..Len(held.metadata), j \in 1..Len(held.metadata) :
            ~AdjacentEqual(held, i, j)

\* Every run of p has start_key <= end_key.
RunsWellFormed(p) ==
    \A i \in 1..Len(p.metadata) : p.metadata[i].start_key <= p.metadata[i].end_key

\* C25: an RLE leaf page is observably a map from key to value: after any
\* sequence of put, delete and compact_data calls get(k) returns the value
\* of the latest put(k, v) that returned true and was not followed by
\* delete(k), and none otherwise; a put or delete on k and a compaction
\* never change get(k') for another key.  Stated for the pages in which no
\* put has wrapped a run around the end of the key range.
C25_RleIsAMap ==
    (lastOp.op \in {"put", "delete", "compact_data"} /\ ~lastOp.panic
        /\ RunsWellFormed(held)) =>
        \A k \in RleKeys :
            RleLeafPage_get(held, k) = [panic |-> FALSE, value |-> model[k]]

\* C26: after any sequence of put and delete calls the runs are sorted by
\* start_key, every run has start_key <= end_key, and no key belongs to two
\* runs.
C26_RunsSortedDisjoint ==
    (lastOp.op \in {"put", "delete"} /\ ~lastOp.panic) =>
        /\ RunsWellFormed(held)
        /\ \A i \in 1..(Len(held.metadata) - 1) :
              /\ held.metadata[i].start_key <= held.metadata[i + 1].start_key
              /\ held.metadata[i].end_key < held.metadata[i + 1].start_key

\* value_offset of the runs of p that store the bytes of value.
OffsetsOf(p, value) ==
    {p.metadata[i].value_offset : i \in
        {j \in 1..Len(p.metadata) :
            /\ p.metadata[j].value_length = Len(value)
            /\ RleInRange(p, p.metadata[j])
            /\ RleValue(p, p.metadata[j]) = value}}

\* The single-key runs of p at key.
SingletonsAt(p, key) ==
    {i \in 1..Len(p.metadata) :
        p.metadata[i].start_key = key /\ p.metadata[i].end_key = key}

\* C27: a put that creates a new run for a value byte-equal to the value of
\* a run already in the page does not append the value again: the data
\* region is unchanged and the new run's value_offset is the existing
\* run's value_offset.
C27_ValueDedupStep ==
    (/\ lastOp'.op = "put" /\ lastOp'.ok /\ ~lastOp'.panic
     /\ RleLeafPage_get(held, lastOp'.key).value # lastOp'.value
     /\ SingletonsAt(held', lastOp'.key) # {}
     /\ OffsetsOf(held, lastOp'.value.v) # {}) =>
        /\ held'.data = held.data
        /\ \A i \in SingletonsAt(held', lastOp'.key) :
              held'.metadata[i].value_offset \in OffsetsOf(held, lastOp'.value.v)

C27_ValueDedup == [][C27_ValueDedupStep]_vars

\* C27 witness: a put has created the single-key run of its key for a
\* non-empty value that a run two keys away stores too; both runs have the
\* same value_offset and data holds the value once.
C27_Witness ==
    /\ lastOp.op = "put" /\ lastOp.ok /\ lastOp.value = Some(<<7>>)
    /\ lastOp.key = 2
    /\ SingletonsAt(held, 2) # {} /\ SingletonsAt(held, 0) # {}
    /\ RleLeafPage_get(held, 1).value # Some(<<7>>)
    /\ RleLeafPage_get(held, 0).value = Some(<<7>>)
    /\ \A i \in SingletonsAt(held, 2), j \in SingletonsAt(held, 0) :
          held.metadata[i].value_offset = held.metadata[j].value_offset
    /\ held.data = <<7>>

\* The pages a walk from leaf id passes: id and the pages its next links
\* lead to.
RECURSIVE ChainFrom(_, _, _)
ChainFrom(t, id, visited) ==
    IF id = 0 \/ id \in visited \/ id \notin PageIds(t) THEN visited
    ELSE ChainFrom(t, LeafAt(t, id).next_page_id, visited \cup {id})

Chain(t) == ChainFrom(t, Anchor(t), {})

\* The chain is a well-formed doubly linked list.
ChainWellFormed(t) ==
    /\ LeafAt(t, Anchor(t)).prev_page_id = 0
    /\ \A p \in Chain(t) :
          LeafAt(t, p).next_page_id # 0 =>
              /\ LeafAt(t, p).next_page_id \in PageIds(t)
              /\ LeafAt(t, LeafAt(t, p).next_page_id).prev_page_id = p

\* C28: after any sequence of successful put and delete calls the leaves
\* reachable from the anchor form a well-formed doubly linked list: the
\* anchor's prev is 0 and every chain page with next = n # 0 has n in the
\* store with n.prev naming it; a put that extends the chain leaves
\* old_tail.next = new page, new_page.prev = old tail, new_page.next = 0.
C28_ChainLinkedStep ==
    (lastOp'.op \in {"put", "delete"} /\ ~erred') =>
        /\ ChainWellFormed(tree')
        /\ \A n \in PageIds(tree') \ PageIds(tree) :
              \E tail \in Chain(tree) :
                  /\ LeafAt(tree, tail).next_page_id = 0
                  /\ LeafAt(tree', tail).next_page_id = n
                  /\ LeafAt(tree', n).prev_page_id = tail
                  /\ LeafAt(tree', n).next_page_id = 0

C28_ChainLinked == [][C28_ChainLinkedStep]_vars

\* C28 witness: no call has failed, a leaf has been unlinked and freed, and
\* a put has then extended the chain by a third page that holds its entry.
C28_Witness ==
    /\ ~erred /\ lastOp.op = "put"
    /\ FreedIds(tree) # {}
    /\ Cardinality(Chain(tree)) >= 3
    /\ \E n \in Chain(tree) :
          /\ LeafAt(tree, n).next_page_id = 0
          /\ LeafAt(tree, n).prev_page_id # 0
          /\ LeafPage_get(LeafAt(tree, n), lastOp.key).some
          /\ \A id \in PageIds(tree) : id <= n

\* The entry (key, value) fits in the free space of stored leaf id, judged
\* against the payload a page of the store can hold.
FitsStorePage(t, id, key, value) ==
    BytesLen(Pages(t)[id].payload) + LeafMetaSize + Len(key) + Len(value)
        <= t.store.page_size - CrcSize

\* The first page of the chain from id in which the entry fits, 0 when none.
RECURSIVE FirstFitFrom(_, _, _, _, _)
FirstFitFrom(t, id, key, value, visited) ==
    IF id = 0 \/ id \in visited \/ id \notin PageIds(t) THEN 0
    ELSE IF FitsStorePage(t, id, key, value) THEN id
    ELSE FirstFitFrom(t, LeafAt(t, id).next_page_id, key, value, visited \cup {id})

FirstFit(t, key, value) == FirstFitFrom(t, Anchor(t), key, value, {})

\* C29: put allocates a new leaf only when no page of the chain can take
\* the entry: a put of a new key whose entry fits in the free space of some
\* chain page, judged against the store's page size, stores it in the first
\* such page and leaves the page count unchanged.
C29_PutFillsFirstFitStep ==
    (/\ lastOp'.op = "put" /\ lastOp'.err = ""
     /\ Holder(tree, lastOp'.key) = 0
     /\ FirstFit(tree, lastOp'.key, lastOp'.value) # 0) =>
        /\ get_page_count(tree'.store) = get_page_count(tree.store)
        /\ LeafPage_get(LeafAt(tree', FirstFit(tree, lastOp'.key, lastOp'.value)),
                        lastOp'.key) = Some(lastOp'.value)

C29_PutFillsFirstFit == [][C29_PutFillsFirstFitStep]_vars

\* Ids whose page image differs between t1 and t2, pages present in only
\* one of them included.
ChangedPages(t1, t2) ==
    {id \in PageIds(t1) \cup PageIds(t2) :
        \/ id \notin PageIds(t1) \/ id \notin PageIds(t2)
        \/ Pages(t1)[id] # Pages(t2)[id]}

\* A successful put changes only the leaf that accepts the entry, which it
\* adds to the dirty set, or the old tail and the one new page.
PutFrameStep ==
    (lastOp'.op = "put" /\ lastOp'.err = "") =>
        IF PageIds(tree') = PageIds(tree)
        THEN \E id \in Chain(tree) :
                /\ ChangedPages(tree, tree') \subseteq {id}
                /\ tree'.dirty_pages = tree.dirty_pages \cup {id}
                /\ LeafPage_get(LeafAt(tree', id), lastOp'.key) = Some(lastOp'.value)
        ELSE \E tail \in Chain(tree), n \in PageIds(tree') \ PageIds(tree) :
                /\ LeafAt(tree, tail).next_page_id = 0
                /\ ChangedPages(tree, tree') = {tail, n}

PutFrame == [][PutFrameStep]_vars

\* C30: a successful put writes only the pages it must: when an existing
\* leaf accepts the entry exactly that page changes and exactly that id is
\* added to the dirty set; when the chain is extended exactly the old tail
\* and the new page change; the root page and every other leaf are
\* unchanged.
C30_PutWritesOnlyNeededStep ==
    /\ PutFrameStep
    /\ (lastOp'.op = "put" /\ lastOp'.err = "") =>
          tree.root_page_id \notin ChangedPages(tree, tree')

C30_PutWritesOnlyNeeded == [][C30_PutWritesOnlyNeededStep]_vars

\* C31: a leaf-page insert that returns false has not mutated the page: the
\* slot directory, its order, the data region, the page size and both link
\* fields are what they were before the call, for a key the page does not
\* hold and for an update of a key it holds alike.
C31_RefusedInsertStep ==
    (lastOp'.op = "insert" /\ ~lastOp'.ok) => held' = held

C31_RefusedInsert == [][C31_RefusedInsertStep]_vars

\* An update of a held key has been refused on a page with two other
\* entries and a next link.
C31_Witness ==
    /\ lastOp.op = "insert"
    /\ ~lastOp.ok
    /\ LeafPage_get(held, lastOp.key).some
    /\ Len(held.metadata) = 3
    /\ held.next_page_id # 0

\* C32: after any sequence of leaf-page insert calls, whatever they
\* returned, the serialized size of the page, 41 + 16 * entry_count + data
\* bytes, is at most page_size - 4, the largest payload put_page_bytes
\* takes; for inserts of new keys and for updates that grow a value alike.
C32_LeafFitsStorePage ==
    LeafBytesLen(LeafPage_serialize(held)) <= held.page_size - CrcSize

\* The (key, value) pairs of the slot directory of p, in directory order.
LeafEntries(p) ==
    [i \in 1..Len(p.metadata) |-> <<MetaKey(p, p.metadata[i]), MetaValue(p, p.metadata[i])>>]

\* The entries of p for keys other than key, in directory order.
LeafOthers(p, key) == SelectSeq(LeafEntries(p), LAMBDA e : e[1] # key)

\* No key occurs twice in the slot directory, and get returns for every key
\* the value of the latest insert that returned true and was not followed
\* by a delete of the key.
C33_LeafMapState ==
    /\ \A i \in 1..Len(held.metadata), j \in 1..Len(held.metadata) :
          LeafEntries(held)[i][1] = LeafEntries(held)[j][1] => i = j
    /\ \A k \in LeafKeys : LeafPage_get(held, k) = model[k]

\* delete(k) returns true exactly when the page held k, and neither insert
\* nor delete changes the value or the relative order of another entry.
C33_LeafMapStep ==
    /\ lastOp'.op = "delete" => (lastOp'.ok <=> LeafPage_get(held, lastOp'.key).some)
    /\ lastOp'.op \in {"insert", "delete"} =>
          LeafOthers(held', lastOp'.key) = LeafOthers(held, lastOp'.key)

\* C33: a single leaf page is observably a map: after any sequence of
\* insert and delete calls every key occurs at most once in the slot
\* directory, get(k) returns the value of the latest insert(k, v) that
\* returned true and was not followed by delete(k), delete(k) returns true
\* exactly when k is present, and neither call changes the value or the
\* relative order of any other entry.
C33_LeafIsAMap == []C33_LeafMapState /\ [][C33_LeafMapStep]_vars

\* The first of three entries has just been updated (it is now the last
\* slot) and the other two are still in the directory.
C33_Witness ==
    /\ lastOp.op = "insert"
    /\ lastOp.ok
    /\ Len(held.metadata) = 3
    /\ LeafPage_position(held, lastOp.key) = 3
    /\ held.metadata[3].key_offset > 0
    /\ model[lastOp.key] = Some(Fill(30, 9))
    /\ LeafBytesLen(LeafPage_serialize(held)) > LeafPageSize

\* How many times entry e occurs in the entries of page p.
BranchCount(p, e) == Cardinality({i \in 1..Len(p.entries) : p.entries[i] = e})

\* C34: after any sequence of BranchPage::insert calls the entries are
\* sorted in non-decreasing order of first_key, and every inserted
\* (child_id, first_key) pair is present exactly as many times as it was
\* inserted.
C34_InsertKeepsSorted ==
    /\ BranchSorted(held.entries)
    /\ \A e \in BranchEntries : BranchCount(held, e) = model[e]

\* The fourth insert put its entry in front of two entries that were in the
\* page already, next to an entry of the same first_key.
C34_Witness ==
    /\ lastOp.op = "insert"
    /\ Len(held.entries) = 4
    /\ \E i \in 1..2 :
          /\ held.entries[i].page_id = 4
          /\ held.entries[i + 1].first_key = held.entries[i].first_key
          /\ held.entries[i + 2].first_key > held.entries[i].first_key

\* C35: the RLE capacity check is a sound worst case: whenever is_full(v)
\* returns false on the page, put(k, v) returns true for every key k, a key
\* in the middle of a run with a different value, which splits that run
\* into three, included.
C35_IsFullSoundStep ==
    (lastOp'.op = "put" /\ ~lastOp'.panic
        /\ ~RleLeafPage_is_full(held, lastOp'.value.v)) => lastOp'.ok

C35_IsFullSound == [][C35_IsFullSoundStep]_vars

\* The leaves of the chain that hold key.
Holders(t, key) == {id \in Chain(t) : LeafPage_get(LeafAt(t, id), key).some}

\* C36: after any sequence of successful put and delete calls each key is
\* stored in at most one leaf page of the overflow chain, so the page in
\* which get finds the key is the page in which delete removes it and no
\* stale copy of an older value can resurface.
C36_OneHolderPerKey ==
    ~erred => \A k \in Keys : Cardinality(Holders(tree, k)) <= 1

\* C37: every get, put and delete terminates: after any sequence of
\* operations the next links followed from the anchor leaf form a finite
\* acyclic path through pages of the store that ends at a page whose next
\* is 0, and no chain walk comes back to a page it has visited.
C37_ChainEndsAtZero ==
    /\ Anchor(tree) \in PageIds(tree)
    /\ \E p \in Chain(tree) : LeafAt(tree, p).next_page_id = 0
    /\ \A k \in Keys : DataTree_get(tree, k).err # "hang"
    /\ lastOp.err # "hang"

\* C38: no page is leaked or lost: after any sequence of successful put and
\* delete calls every page in the store is the root, the anchor leaf or a
\* leaf reachable from the anchor through next links, and when every stored
\* key has been deleted the store holds exactly the root and the anchor.
C38_NoPageLeaked ==
    ~erred =>
        /\ PageIds(tree) = {tree.root_page_id} \cup Chain(tree)
        /\ (\A k \in Keys : Holders(tree, k) = {})
               => PageIds(tree) = {tree.root_page_id, Anchor(tree)}

\* Under a branch root the last of several stored keys has just been
\* deleted: two leaves have been freed and only root and anchor are left.
C38_Witness ==
    /\ ~erred /\ lastOp.op = "delete" /\ lastOp.found
    /\ IsBranchRoot(tree)
    /\ Cardinality(FreedIds(tree)) >= 2
    /\ \A k \in Keys : Holders(tree, k) = {}
    /\ PageIds(tree) = {tree.root_page_id, Anchor(tree)}

\* The tree once the fault is gone: every corrupted page restored by a
\* second corrupt_page_for_testing.
Healed(t) ==
    [t EXCEPT !.store.pages = [id \in DOMAIN @ |-> [@[id] EXCEPT !.crc_ok = TRUE]]]

\* C39: a put or delete that returns an error has not changed the
\* observable mapping: once the fault is gone, get returns for every key
\* what it returned before the failed call; a delete that fails while
\* relinking the neighbours of an emptied leaf has not removed the key.
C39_FailedCallKeepsMapStep ==
    (lastOp'.op \in {"put", "delete"} /\ lastOp'.err # "") =>
        Observable(Healed(tree')) = Observable(Healed(tree))

C39_FailedCallKeepsMap == [][C39_FailedCallKeepsMapStep]_vars

\* C40: RLE leaf put, get and delete are correct at the ends of the key
\* range: with keys 0 and u64::MAX the adjacency arithmetic (key + 1,
\* end_key + 1, key - 1) neither overflows nor wraps around into a false
\* adjacency; a put or delete of 0 or u64::MAX on a page whose runs are
\* intact does not panic and leaves every run with start_key <= end_key,
\* and put(u64::MAX, v) followed by get(u64::MAX) returns v.
C40_EndsOfKeyRangeStep ==
    (/\ lastOp'.op \in {"put", "delete"}
     /\ lastOp'.key \in {0, U64_MAX}
     /\ RunsWellFormed(held)
     /\ \A i \in 1..Len(held.metadata) : RleInRange(held, held.metadata[i])) =>
        /\ ~lastOp'.panic
        /\ RunsWellFormed(held')
        /\ (lastOp'.op = "put" /\ lastOp'.ok) =>
              RleLeafPage_get(held', lastOp'.key)
                  = [panic |-> FALSE, value |-> lastOp'.value]

C40_EndsOfKeyRange == [][C40_EndsOfKeyRangeStep]_vars

====
